---- MODULE Spec2Model ----
(***************************************************************************)
(* Language-monitor bot: the classification / extraction pipeline of       *)
(* services/language.ts and services/image.ts (src/unnamed/part_000).      *)
(*                                                                         *)
(* JavaScript strings are sequences of one-character strings, so that      *)
(* trim(), toLowerCase(), includes() and JSON.parse() are computed on the  *)
(* characters as the runtime computes them.                                *)
(***************************************************************************)
EXTENDS Integers, Sequences, FiniteSets, TLC

(***************************************************************************)
(* Bounds of the model.                                                    *)
(***************************************************************************)
\* longest run of white space put before / after a remote reply
MaxPad == 1
\* longest list of guesses the local detector returns
MaxDetections == 2
\* the detector's probabilities are the levels 0..MaxProb (k stands for k/MaxProb)
MaxProb == 2

(***************************************************************************)
(* String literals of the source and of the test doubles.                  *)
(***************************************************************************)
Str_english ==
    <<"e", "n", "g", "l", "i", "s", "h">>
Str_NO_TEXT_FOUND ==
    <<"N", "O", "_", "T", "E", "X", "T", "_", "F", "O", "U", "N", "D">>
Str_text ==
    <<"t", "e", "x", "t">>
Str_isEnglish ==
    <<"i", "s", "E", "n", "g", "l", "i", "s", "h">>
Str_DefaultJson ==
    <<"{", "\"", "t", "e", "x", "t", "\"", ":", "\"", "\"", ",", "\"", "i",
    "s", "E", "n", "g", "l", "i", "s", "h", "\"", ":", "t", "r", "u", "e",
    "}">>
Str_true ==
    <<"t", "r", "u", "e">>
Str_false ==
    <<"f", "a", "l", "s", "e">>
Str_null ==
    <<"n", "u", "l", "l">>

\* texts handed to isEnglish
Txt_Bonjour ==
    <<"B", "o", "n", "j", "o", "u", "r", " ", "l", "e", " ", "m", "o", "n",
    "d", "e">>

\* reply contents of the classification request
Rep_nonEnglish ==
    <<"n", "o", "n", "-", "e", "n", "g", "l", "i", "s", "h">>
Rep_NON_ENGLISH ==
    <<"N", "O", "N", "-", "E", "N", "G", "L", "I", "S", "H">>
Rep_french ==
    <<"f", "r", "e", "n", "c", "h">>

\* reply contents of the vision request
Vis_BonjourFalse ==
    <<"{", "\"", "t", "e", "x", "t", "\"", ":", "\"", "B", "o", "n", "j",
    "o", "u", "r", "\"", ",", "\"", "i", "s", "E", "n", "g", "l", "i", "s",
    "h", "\"", ":", "f", "a", "l", "s", "e", "}">>
Vis_HelloTrue ==
    <<"{", "\"", "t", "e", "x", "t", "\"", ":", "\"", "H", "e", "l", "l",
    "o", "\"", ",", "\"", "i", "s", "E", "n", "g", "l", "i", "s", "h", "\"",
    ":", "t", "r", "u", "e", "}">>
Vis_EmptyFalse ==
    <<"{", "\"", "t", "e", "x", "t", "\"", ":", "\"", "\"", ",", "\"", "i",
    "s", "E", "n", "g", "l", "i", "s", "h", "\"", ":", "f", "a", "l", "s",
    "e", "}">>
Vis_VerdictNull ==
    <<"{", "\"", "t", "e", "x", "t", "\"", ":", "\"", "B", "o", "n", "j",
    "o", "u", "r", "\"", ",", "\"", "i", "s", "E", "n", "g", "l", "i", "s",
    "h", "\"", ":", "n", "u", "l", "l", "}">>
Vis_NotJson ==
    <<"S", "o", "m", "e", " ", "t", "e", "x", "t">>
Vis_Sentinel ==
    <<"N", "O", "_", "T", "E", "X", "T", "_", "F", "O", "U", "N", "D">>

\* the placeholders and reply contents of translateText
Str_TranslationError ==
    <<"T", "r", "a", "n", "s", "l", "a", "t", "i", "o", "n", " ", "e", "r",
    "r", "o", "r">>
Str_ErrorTranslating ==
    <<"E", "r", "r", "o", "r", " ", "t", "r", "a", "n", "s", "l", "a", "t",
    "i", "n", "g", " ", "t", "e", "x", "t", ".">>
Tr_Hello ==
    <<"H", "e", "l", "l", "o", " ", "w", "o", "r", "l", "d">>

\* index.ts: the reply template, the file locator and the bot token
Str_ReplyPrefix ==
    <<"T", "r", "a", "n", "s", "l", "a", "t", "i", "o", "n", ":", " ">>
Str_ReplySuffix ==
    <<"\n", "\n", "P", "l", "e", "a", "s", "e", ",", " ", "r", "e", "f", "r",
    "a", "i", "n", " ", "f", "r", "o", "m", " ", "u", "s", "a", "g", "e",
    " ", "o", "f", " ", "a", "n", "y", " ", "l", "a", "n", "g", "u", "a",
    "g", "e", " ", "e", "x", "c", "e", "p", "t", " ", "E", "n", "g", "l",
    "i", "s", "h">>
Str_FileUrlPrefix ==
    <<"h", "t", "t", "p", "s", ":", "/", "/", "a", "p", "i", ".", "t", "e",
    "l", "e", "g", "r", "a", "m", ".", "o", "r", "g", "/", "f", "i", "l",
    "e", "/", "b", "o", "t">>
TELEGRAM_BOT_TOKEN ==
    <<"f", "a", "k", "e", "-", "t", "o", "k", "e", "n">>
Path_File ==
    <<"p", "a", "t", "h", "/", "t", "o", "/", "f", "i", "l", "e", ".", "j",
    "p", "g">>


(***************************************************************************)
(* String.prototype.trim, toLowerCase, includes.                           *)
(***************************************************************************)
WhiteSpace == {" ", "\t", "\n", "\r"}

UpperCase ==
    <<"A", "B", "C", "D", "E", "F", "G", "H", "I", "J", "K", "L", "M",
      "N", "O", "P", "Q", "R", "S", "T", "U", "V", "W", "X", "Y", "Z">>
LowerCase ==
    <<"a", "b", "c", "d", "e", "f", "g", "h", "i", "j", "k", "l", "m",
      "n", "o", "p", "q", "r", "s", "t", "u", "v", "w", "x", "y", "z">>

toLowerCaseChar(c) ==
    IF \E k \in 1..Len(UpperCase) : UpperCase[k] = c
    THEN LowerCase[CHOOSE k \in 1..Len(UpperCase) : UpperCase[k] = c]
    ELSE c

toLowerCase(s) == [k \in 1..Len(s) |-> toLowerCaseChar(s[k])]

RECURSIVE trimStart(_)
trimStart(s) ==
    IF s # <<>> /\ Head(s) \in WhiteSpace THEN trimStart(Tail(s)) ELSE s

RECURSIVE trimEnd(_)
trimEnd(s) ==
    IF s # <<>> /\ s[Len(s)] \in WhiteSpace
    THEN trimEnd(SubSeq(s, 1, Len(s) - 1))
    ELSE s

trim(s) == trimEnd(trimStart(s))

\* s starts with the characters of p at position k
MatchesAt(s, p, k) ==
    /\ k + Len(p) - 1 <= Len(s)
    /\ \A j \in 1..Len(p) : s[k + j - 1] = p[j]

\* String.prototype.includes: scan the start positions from the left
RECURSIVE includesFrom(_, _, _)
includesFrom(s, p, k) ==
    IF k + Len(p) - 1 > Len(s) THEN FALSE
    ELSE IF MatchesAt(s, p, k) THEN TRUE
    ELSE includesFrom(s, p, k + 1)

includes(s, p) == includesFrom(s, p, 1)

(***************************************************************************)
(* JavaScript values, as far as JSON.parse produces them.                  *)
(***************************************************************************)
JSUndefined == [t |-> "undefined"]
JSNull == [t |-> "null"]
JSBool(b) == [t |-> "boolean", b |-> b]
JSNum(n) == [t |-> "number", n |-> n]
JSStr(s) == [t |-> "string", s |-> s]
JSArr(a) == [t |-> "array", a |-> a]
\* an object is its list of <<key, value>> properties in source order
JSObj(m) == [t |-> "object", m |-> m]

\* ToBoolean
Truthy(v) ==
    CASE v.t = "undefined" -> FALSE
      [] v.t = "null" -> FALSE
      [] v.t = "boolean" -> v.b
      [] v.t = "number" -> v.n # 0
      [] v.t = "string" -> v.s # <<>>
      [] OTHER -> TRUE

\* a || b
OrElse(a, b) == IF Truthy(a) THEN a ELSE b

\* v.key never throws on these values except for null and undefined
CanReadProperty(v) == v.t \notin {"undefined", "null"}

\* v[key]: own properties of parsed objects; a later duplicate key wins
GetProperty(v, key) ==
    IF v.t = "object" /\ \E k \in 1..Len(v.m) : v.m[k][1] = key
    THEN LET last == CHOOSE k \in 1..Len(v.m) :
                        /\ v.m[k][1] = key
                        /\ \A j \in (k + 1)..Len(v.m) : v.m[j][1] # key
         IN v.m[last][2]
    ELSE JSUndefined

(***************************************************************************)
(* JSON.parse, for the JSON grammar without fractions, exponents and       *)
(* \u escapes.  A parse step returns [ok, val, next]: whether a value was  *)
(* read, the value, and the position after it.                             *)
(***************************************************************************)
JsonWhiteSpace == {" ", "\t", "\n", "\r"}
Digits == <<"0", "1", "2", "3", "4", "5", "6", "7", "8", "9">>
IsDigit(c) == \E k \in 1..10 : Digits[k] = c
DigitValue(c) == (CHOOSE k \in 1..10 : Digits[k] = c) - 1

ParseFail(i) == [ok |-> FALSE, val |-> JSUndefined, next |-> i]
ParseOk(v, i) == [ok |-> TRUE, val |-> v, next |-> i]

RECURSIVE SkipWs(_, _)
SkipWs(s, i) ==
    IF i <= Len(s) /\ s[i] \in JsonWhiteSpace THEN SkipWs(s, i + 1) ELSE i

\* the characters of a string literal, i being the position after the
\* opening quote; acc is what has been read so far
RECURSIVE ParseStringBody(_, _, _)
ParseStringBody(s, i, acc) ==
    IF i > Len(s) THEN ParseFail(i)
    ELSE IF s[i] = "\"" THEN ParseOk(JSStr(acc), i + 1)
    ELSE IF s[i] = "\\" THEN
        IF i + 1 > Len(s) THEN ParseFail(i)
        ELSE CASE s[i + 1] = "\"" -> ParseStringBody(s, i + 2, Append(acc, "\""))
               [] s[i + 1] = "\\" -> ParseStringBody(s, i + 2, Append(acc, "\\"))
               [] s[i + 1] = "/" -> ParseStringBody(s, i + 2, Append(acc, "/"))
               [] s[i + 1] = "n" -> ParseStringBody(s, i + 2, Append(acc, "\n"))
               [] s[i + 1] = "t" -> ParseStringBody(s, i + 2, Append(acc, "\t"))
               [] s[i + 1] = "r" -> ParseStringBody(s, i + 2, Append(acc, "\r"))
               [] OTHER -> ParseFail(i)
    ELSE IF s[i] \in {"\n", "\t", "\r"} THEN ParseFail(i)
    ELSE ParseStringBody(s, i + 1, Append(acc, s[i]))

RECURSIVE ParseDigits(_, _, _)
ParseDigits(s, i, acc) ==
    IF i <= Len(s) /\ IsDigit(s[i])
    THEN ParseDigits(s, i + 1, 10 * acc + DigitValue(s[i]))
    ELSE ParseOk(JSNum(acc), i)

\* -? ( 0 | [1-9][0-9]* )
ParseNumber(s, i) ==
    LET neg == s[i] = "-"
        j == IF neg THEN i + 1 ELSE i
    IN IF j > Len(s) \/ ~IsDigit(s[j]) THEN ParseFail(i)
       ELSE LET r == IF s[j] = "0" THEN ParseOk(JSNum(0), j + 1)
                     ELSE ParseDigits(s, j, 0)
            IN IF neg THEN ParseOk(JSNum(0 - r.val.n), r.next) ELSE r

ParseLiteral(s, i, word, v) ==
    IF MatchesAt(s, word, i) THEN ParseOk(v, i + Len(word)) ELSE ParseFail(i)

RECURSIVE ParseValue(_, _)
RECURSIVE ParseElements(_, _, _)
RECURSIVE ParseMembers(_, _, _)

\* the elements of an array after "[" or after a comma
ParseElements(s, i, acc) ==
    LET e == ParseValue(s, i)
        j == SkipWs(s, e.next)
    IN IF ~e.ok \/ j > Len(s) THEN ParseFail(i)
       ELSE IF s[j] = "," THEN ParseElements(s, j + 1, Append(acc, e.val))
       ELSE IF s[j] = "]" THEN ParseOk(JSArr(Append(acc, e.val)), j + 1)
       ELSE ParseFail(j)

\* the members of an object after "{" or after a comma
ParseMembers(s, i, acc) ==
    LET k == SkipWs(s, i)
    IN IF k > Len(s) \/ s[k] # "\"" THEN ParseFail(k)
       ELSE
         LET key == ParseStringBody(s, k + 1, <<>>)
             c == SkipWs(s, key.next)
         IN IF ~key.ok \/ c > Len(s) \/ s[c] # ":" THEN ParseFail(k)
            ELSE
              LET v == ParseValue(s, c + 1)
                  j == SkipWs(s, v.next)
                  acc2 == Append(acc, <<key.val.s, v.val>>)
              IN IF ~v.ok \/ j > Len(s) THEN ParseFail(k)
                 ELSE IF s[j] = "," THEN ParseMembers(s, j + 1, acc2)
                 ELSE IF s[j] = "}" THEN ParseOk(JSObj(acc2), j + 1)
                 ELSE ParseFail(j)

\* one JSON value, white space before it skipped
ParseValue(s, i) ==
    LET k == SkipWs(s, i)
    IN IF k > Len(s) THEN ParseFail(k)
       ELSE CASE s[k] = "{" ->
                   LET j == SkipWs(s, k + 1)
                   IN IF j <= Len(s) /\ s[j] = "}" THEN ParseOk(JSObj(<<>>), j + 1)
                      ELSE ParseMembers(s, k + 1, <<>>)
              [] s[k] = "[" ->
                   LET j == SkipWs(s, k + 1)
                   IN IF j <= Len(s) /\ s[j] = "]" THEN ParseOk(JSArr(<<>>), j + 1)
                      ELSE ParseElements(s, k + 1, <<>>)
              [] s[k] = "\"" -> ParseStringBody(s, k + 1, <<>>)
              [] s[k] = "t" -> ParseLiteral(s, k, Str_true, JSBool(TRUE))
              [] s[k] = "f" -> ParseLiteral(s, k, Str_false, JSBool(FALSE))
              [] s[k] = "n" -> ParseLiteral(s, k, Str_null, JSNull)
              [] s[k] = "-" \/ IsDigit(s[k]) -> ParseNumber(s, k)
              [] OTHER -> ParseFail(k)

\* JSON.parse(s): the value, or a SyntaxError when s is not exactly one value
JSONparse(s) ==
    LET r == ParseValue(s, 1)
    IN IF r.ok /\ SkipWs(s, r.next) > Len(s)
       THEN [ok |-> TRUE, val |-> r.val]
       ELSE [ok |-> FALSE, val |-> JSUndefined]

(***************************************************************************)
(* The collaborators' behaviours the pipeline is run against.              *)
(***************************************************************************)
\* the handle of setOpenAIClient is either unset or the one client
Undefined == "undefined"
Clients == {"openai"}

\* texts isEnglish is called with
Texts ==
    {
        <<>>,
        <<"H", "e", "l", "l", "o", " ", "w", "o", "r", "l", "d">>,
        Txt_Bonjour
    }

\* locators analyzeImage is called with
ImageUrls ==
    {<<"h", "t", "t", "p", ":", "/", "/", "e", "x", "a", "m", "p", "l", "e",
       ".", "c", "o", "m", "/", "i", "m", "a", "g", "e", ".", "j", "p", "g">>}

Spaces(n) == [k \in 1..n |-> " "]
NewLines(n) == [k \in 1..n |-> "\n"]
\* the contents of S with up to MaxPad blanks before and line ends after
Padded(S) ==
    {Spaces(l) \o w \o NewLines(r) : l \in 0..MaxPad, r \in 0..MaxPad, w \in S}

\* langdetect.detect: a LanguageDetection is {lang, prob}
Langs == {"en", "fr"}
LanguageDetection == [lang : Langs, prob : 0..MaxProb]
\* detect() lists its guesses by falling probability
DetectionLists ==
    {d \in UNION {[1..n -> LanguageDetection] : n \in 0..MaxDetections} :
        \A k \in 1..(Len(d) - 1) : d[k].prob >= d[k + 1].prob}
\* detect() throws, returns nothing, or returns a list of guesses
DetectorOutcomes ==
    {[kind |-> "throw"], [kind |-> "null"]}
        \cup {[kind |-> "list", list |-> d] : d \in DetectionLists}

\* chat.completions.create: the promise rejects, or resolves to a response
\* without choices[0], without choices[0].message, with no content, or
\* with a content string
Responses(contents) ==
    {[kind |-> "reject"], [kind |-> "noChoice"], [kind |-> "noMessage"],
     [kind |-> "noContent"]}
        \cup {[kind |-> "content", content |-> c] : c \in contents}

ClassifyContents ==
    Padded({
        <<>>,
        Str_english,
        Rep_nonEnglish,
        <<"E", "n", "g", "l", "i", "s", "h">>,
        Rep_NON_ENGLISH,
        <<"I", "t", " ", "i", "s", " ", "e", "n", "g", "l", "i", "s", "h",
          ".">>,
        Rep_french,
        <<"e", "n", "g", "l", "i", "s">>,
        <<"n", "o">>
    })
ClassifyResponses == Responses(ClassifyContents)

VisionContents ==
    Padded({
        <<>>,
        Vis_BonjourFalse,
        Vis_HelloTrue,
        <<"{", "\"", "t", "e", "x", "t", "\"", ":", "\"", "\"", ",", "\"",
          "i", "s", "E", "n", "g", "l", "i", "s", "h", "\"", ":", "t", "r",
          "u", "e", "}">>,
        Vis_EmptyFalse,
        <<"{", "\"", "i", "s", "E", "n", "g", "l", "i", "s", "h", "\"", ":",
          "f", "a", "l", "s", "e", "}">>,
        <<"{", "\"", "t", "e", "x", "t", "\"", ":", "\"", "B", "o", "n", "j",
          "o", "u", "r", "\"", "}">>,
        Vis_VerdictNull,
        <<"{", "\"", "t", "e", "x", "t", "\"", ":", "\"", "B", "o", "n", "j",
          "o", "u", "r", "\"", ",", "\"", "i", "s", "E", "n", "g", "l", "i",
          "s", "h", "\"", ":", "0", "}">>,
        <<"{", "\"", "t", "e", "x", "t", "\"", ":", "\"", "B", "o", "n", "j",
          "o", "u", "r", "\"", ",", "\"", "i", "s", "E", "n", "g", "l", "i",
          "s", "h", "\"", ":", "\"", "n", "o", "\"", "}">>,
        <<"{", "\"", "t", "e", "x", "t", "\"", ":", "\"", "B", "o", "n", "j",
          "o", "u", "r", "\"", ",", "\"", "i", "s", "E", "n", "g", "l", "i",
          "s", "h", "\"", ":", "\"", "f", "a", "l", "s", "e", "\"", "}">>,
        <<"{", " ", "\"", "i", "s", "E", "n", "g", "l", "i", "s", "h", "\"",
          " ", ":", " ", "f", "a", "l", "s", "e", " ", ",", " ", "\"", "t",
          "e", "x", "t", "\"", " ", ":", " ", "\"", " ", "B", "o", "n", " ",
          "j", "o", "u", "r", " ", "\"", " ", "}">>,
        <<"{", "\"", "t", "e", "x", "t", "\"", ":", "n", "u", "l", "l", ",",
          "\"", "i", "s", "E", "n", "g", "l", "i", "s", "h", "\"", ":", "f",
          "a", "l", "s", "e", "}">>,
        <<"{", "\"", "t", "e", "x", "t", "\"", ":", "0", ",", "\"", "i", "s",
          "E", "n", "g", "l", "i", "s", "h", "\"", ":", "f", "a", "l", "s",
          "e", "}">>,
        <<"{", "}">>,
        <<"n", "u", "l", "l">>,
        <<"5">>,
        <<"\"", "B", "o", "n", "j", "o", "u", "r", "\"">>,
        <<"[", "\"", "B", "o", "n", "j", "o", "u", "r", "\"", "]">>,
        Vis_NotJson,
        <<"{", "\"", "t", "e", "x", "t", "\"", ":", "\"", "B", "o", "n", "j",
          "o", "u", "r", "\"", ",", "\"", "i", "s", "E", "n", "g", "l", "i",
          "s", "h", "\"", ":", "f", "a", "l">>,
        Vis_Sentinel,
        <<"S", "o", "r", "r", "y", ",", " ", "N", "O", "_", "T", "E", "X",
          "T", "_", "F", "O", "U", "N", "D", " ", "h", "e", "r", "e">>
    })
VisionResponses == Responses(VisionContents)

TranslateContents == Padded({<<>>, Tr_Hello})
TranslateResponses == Responses(TranslateContents)

\* response.choices[0].message is there to read .content from
HasMessage(r) == r.kind \in {"noContent", "content"}

(***************************************************************************)
(* State.                                                                  *)
(***************************************************************************)
\* the event loop runs up to two asynchronous tasks, each a chain of
\* suspended async calls; task 1 is the one a caller outside the pipeline
\* starts
Tasks == {1, 2}

VARIABLES
    openaiClientLanguage,  \* language.ts: let openaiClient
    openaiClientImage,     \* image.ts: let openaiClient
    stacks,                \* per task: the suspended async calls, innermost last
    rets,                  \* per task: how the call that finished last settled
    logs,                  \* per task: calls, requests, replies and returns, in order
    phase,                 \* "free", or the stage of a two-post comparison
    reference              \* per task: the log of the post handled on its own

vars == <<openaiClientLanguage, openaiClientImage, stacks, rets, logs,
          phase, reference>>

stack == stacks[1]
ret == rets[1]
log == logs[1]

NoRet == [kind |-> "none"]
Return(fn, v) == [kind |-> "return", fn |-> fn, value |-> v]
Throw(fn) == [kind |-> "throw", fn |-> fn]

\* the log entry of a call that settled
Settled(r) ==
    IF r.kind = "return"
    THEN [ev |-> "return", fn |-> r.fn, value |-> r.value]
    ELSE [ev |-> "throw", fn |-> r.fn]

ConsoleError(msg, error) == [ev |-> "console.error", msg |-> msg, error |-> error]

Top(t) == stacks[t][Len(stacks[t])]
Pop(t) == SubSeq(stacks[t], 1, Len(stacks[t]) - 1)

\* the handler of a channel post is the outermost call of task t
InHandler(t) == stacks[t] # <<>> /\ stacks[t][1].fn = "channel_post"

\* what a collaborator may do for task t: any of its behaviours to a call
\* from outside the pipeline, the representative ones to a post handled
\* alone, the fewer ones to a post of a two-post comparison
Choices(t, all, handler, concurrent) ==
    IF ~InHandler(t) THEN all
    ELSE IF phase \in {"free", "legacy"} THEN handler
    ELSE concurrent

\* a post handled alone is run against these behaviours of the collaborators
HandlerDetectorOutcomes ==
    {[kind |-> "throw"],
     [kind |-> "list", list |-> <<>>],
     [kind |-> "list", list |-> <<[lang |-> "en", prob |-> MaxProb]>>],
     [kind |-> "list", list |-> <<[lang |-> "fr", prob |-> MaxProb]>>]}

\* two posts are compared against these
ConcurrentDetectorOutcomes ==
    {[kind |-> "list", list |-> <<[lang |-> "en", prob |-> MaxProb]>>],
     [kind |-> "list", list |-> <<[lang |-> "fr", prob |-> MaxProb]>>]}

DetectorChoices(t) ==
    Choices(t, DetectorOutcomes, HandlerDetectorOutcomes,
            ConcurrentDetectorOutcomes)
ClassifyChoices(t) ==
    Choices(t, ClassifyResponses,
            {[kind |-> "reject"], [kind |-> "noContent"]}
                \cup {[kind |-> "content", content |-> c] :
                         c \in {<<>>, Str_english, Rep_nonEnglish, Rep_french}},
            {[kind |-> "reject"], [kind |-> "content", content |-> Rep_french]})
VisionChoices(t) ==
    Choices(t, VisionResponses,
            {[kind |-> "reject"], [kind |-> "noContent"]}
                \cup {[kind |-> "content", content |-> c] :
                         c \in {Vis_BonjourFalse, Vis_HelloTrue, Vis_EmptyFalse,
                                Vis_NotJson, Vis_Sentinel}},
            {[kind |-> "content", content |-> c] :
                c \in {Vis_BonjourFalse, Vis_NotJson}})
TranslateChoices(t) ==
    Choices(t, TranslateResponses,
            {[kind |-> "reject"], [kind |-> "noContent"],
             [kind |-> "content", content |-> Tr_Hello]},
            {[kind |-> "reject"], [kind |-> "content", content |-> Tr_Hello]})

\* when the two posts are handled again, each collaborator (detect(), a
\* request, a transport call) does for task t what it did at the same
\* point of the post handled on its own
Replays(t, l) ==
    phase = "concurrent"
        => \A k \in DOMAIN l :
              (/\ k \in DOMAIN reference[t]
               /\ l[k].ev \in {"detect", "response", "getFile.settled",
                              "sendMessage.settled"}
               /\ reference[t][k].ev = l[k].ev)
                  => l[k].out = reference[t][k].out

\* when one post is handled by the two pipelines side by side, each
\* collaborator does for task t what it did for the other task at the same
\* point
SideBySide(t, l) ==
    phase = "legacy"
        => \A u \in Tasks \ {t} : \A k \in DOMAIN l :
              (/\ k \in DOMAIN logs[u]
               /\ l[k].ev \in {"detect", "response", "getFile.settled",
                              "sendMessage.settled"}
               /\ logs[u][k].ev = l[k].ev)
                  => l[k].out = logs[u][k].out

\* mutant: translateText drops the client of language.ts when it returns
RunDroppingClient(t, frames, r, l) ==
    /\ stacks' = [stacks EXCEPT ![t] = frames]
    /\ rets' = [rets EXCEPT ![t] = r]
    /\ logs' = [logs EXCEPT ![t] = l]
    /\ Replays(t, l)
    /\ SideBySide(t, l)
    /\ openaiClientLanguage' =
          IF r.kind = "return" /\ r.fn = "translateText"
          THEN Undefined
          ELSE openaiClientLanguage
    /\ UNCHANGED <<openaiClientImage, phase, reference>>

\* task t moves on: its suspended calls, how its last call settled, its log
Run(t, frames, r, l) ==
    /\ stacks' = [stacks EXCEPT ![t] = frames]
    /\ rets' = [rets EXCEPT ![t] = r]
    /\ logs' = [logs EXCEPT ![t] = l]
    /\ Replays(t, l)
    /\ SideBySide(t, l)
    /\ UNCHANGED <<openaiClientLanguage, openaiClientImage, phase, reference>>

Init ==
    /\ openaiClientLanguage = Undefined
    /\ openaiClientImage = Undefined
    /\ stacks = [t \in Tasks |-> <<>>]
    /\ rets = [t \in Tasks |-> NoRet]
    /\ logs = [t \in Tasks |-> <<>>]
    /\ phase = "free"
    /\ reference = [t \in Tasks |-> <<>>]

\* between two calls the observer's record is wiped, as the tests do in
\* beforeEach with jest.clearAllMocks()
clearAllMocks ==
    /\ phase = "free"
    /\ stack = <<>>
    /\ log # <<>>
    /\ Run(1, <<>>, NoRet, <<>>)

(***************************************************************************)
(* services/language.ts                                                    *)
(***************************************************************************)
setOpenAIClientLanguage ==
    /\ phase = "free"
    /\ \E client \in Clients : openaiClientLanguage' = client
    /\ UNCHANGED <<openaiClientImage, stacks, rets, logs, phase, reference>>

\* mutant: the top guess counts only when the detector is sure of it
detectsEnglishConfident(d) ==
    /\ d.kind = "list"
    /\ Len(d.list) > 0
    /\ d.list[1].lang = "en"
    /\ d.list[1].prob = MaxProb

\* detections && detections.length > 0 && detections[0].lang === 'en'
detectsEnglish(d) ==
    /\ d.kind = "list"
    /\ Len(d.list) > 0
    /\ d.list[1].lang = "en"

\* mutant: the catch block hands the error on
isEnglishCatchRethrow == Throw("isEnglish")

\* catch (error) { console.error(...); return true; }
isEnglishCatch == Return("isEnglish", TRUE)

\* mutant: the reply is trimmed but keeps its case
isEnglishResultKeepCase(r) ==
    IF r.kind = "content" THEN trim(r.content) ELSE <<>>

\* response.choices[0].message.content?.trim().toLowerCase() || ''
isEnglishResult(r) ==
    IF r.kind = "content" THEN toLowerCase(trim(r.content)) ELSE <<>>

\* mutant: choices[0]?.message?.content, a response without a message
\* reading as the empty reply
isEnglishAfterCreateOptional(r) ==
    IF r.kind = "reject"
    THEN isEnglishCatch
    ELSE Return("isEnglish", includes(isEnglishResult(r), Str_english))

\* the function from the reply of the request to its return
isEnglishAfterCreate(r) ==
    IF HasMessage(r)
    THEN Return("isEnglish", includes(isEnglishResult(r), Str_english))
    ELSE isEnglishCatch

\* isEnglish(text) up to its first await, d being what detect(text) does:
\* the entries it logs, the frame it suspends in (none when it has
\* settled) and how it settled
isEnglishEnter(text, d) ==
    LET called == <<[ev |-> "isEnglish", text |-> text,
                     openaiClient |-> openaiClientLanguage],
                    [ev |-> "detect", text |-> text, out |-> d]>>
        caught(error) ==
            [events |-> called
                \o <<ConsoleError("Error detecting language:", error),
                     Settled(isEnglishCatch)>>,
             frames |-> <<>>,
             ret |-> isEnglishCatch]
    IN IF d.kind = "throw" THEN caught("detect")
       ELSE IF detectsEnglish(d)
       THEN [events |-> called \o <<Settled(Return("isEnglish", TRUE))>>,
             frames |-> <<>>,
             ret |-> Return("isEnglish", TRUE)]
       ELSE IF openaiClientLanguage = Undefined THEN caught("TypeError")
       ELSE [events |-> called
                \o <<[ev |-> "create", model |-> "gpt-3.5-turbo",
                      ask |-> "classify", text |-> text]>>,
             frames |-> <<[fn |-> "isEnglish", pc |-> "create", text |-> text]>>,
             ret |-> NoRet]

\* a caller outside the pipeline calls isEnglish(text)
callIsEnglish ==
    /\ phase = "free"
    /\ stack = <<>>
    /\ log = <<>>
    /\ \E text \in Texts, d \in DetectorOutcomes :
          LET e == isEnglishEnter(text, d)
          IN Run(1, e.frames, e.ret, e.events)

\* the classification request settles and isEnglish runs to its return
isEnglishResume(t) ==
    /\ stacks[t] # <<>>
    /\ Top(t).fn = "isEnglish"
    /\ Top(t).pc = "create"
    /\ \E r \in ClassifyChoices(t) :
          LET out == isEnglishAfterCreate(r)
              error == IF HasMessage(r) THEN <<>>
                       ELSE <<ConsoleError("Error detecting language:", r.kind)>>
          IN Run(t, Pop(t), out,
                 logs[t] \o <<[ev |-> "response", ask |-> "classify", out |-> r]>>
                         \o error \o <<Settled(out)>>)

(***************************************************************************)
(* services/image.ts                                                       *)
(***************************************************************************)
setOpenAIClientImage ==
    /\ phase = "free"
    /\ \E client \in Clients : openaiClientImage' = client
    /\ UNCHANGED <<openaiClientLanguage, stacks, rets, logs, phase, reference>>

ImageResult(text, english) == [text |-> text, isEnglish |-> english]

\* mutant: the outer catch block hands the error on
analyzeImageCatchRethrow == Throw("analyzeImage")

\* outer catch (error) { console.error(...); return { text: '', isEnglish: true }; }
analyzeImageCatch == Return("analyzeImage", ImageResult(JSStr(<<>>), TRUE))

\* mutant: the content is taken as it came, white space included
analyzeImageContentUntrimmed(r) ==
    IF r.kind = "content" /\ r.content # <<>>
    THEN r.content
    ELSE Str_DefaultJson

\* response.choices[0].message.content?.trim() || '{"text":"","isEnglish":true}'
analyzeImageContent(r) ==
    IF r.kind = "content" /\ trim(r.content) # <<>>
    THEN trim(r.content)
    ELSE Str_DefaultJson

\* mutant: the field is read by its truthiness, !!result.isEnglish
analyzeImageVerdictTruthy(v) == Truthy(v)

\* result.isEnglish === false ? false : true
analyzeImageVerdict(v) == ~(v.t = "boolean" /\ v.b = FALSE)

\* { text: result.text || '', isEnglish: ... } of a parsed result
analyzeImageStructured(result) ==
    ImageResult(OrElse(GetProperty(result, Str_text), JSStr(<<>>)),
                analyzeImageVerdict(GetProperty(result, Str_isEnglish)))

\* the inner try block: JSON.parse throws, or reading result.text does,
\* or the object literal is returned
analyzeImageTry(responseContent) ==
    LET parsed == JSONparse(responseContent)
    IN IF parsed.ok /\ CanReadProperty(parsed.val)
       THEN [ok |-> TRUE, value |-> analyzeImageStructured(parsed.val)]
       ELSE [ok |-> FALSE, value |-> ImageResult(JSStr(<<>>), TRUE)]

\* mutant: any content that is there is classified, marker or not
analyzeImageSecondAttemptAnyContent(responseContent) ==
    Len(responseContent) > 0

\* responseContent.length > 0 && !responseContent.includes('NO_TEXT_FOUND')
analyzeImageSecondAttempt(responseContent) ==
    /\ Len(responseContent) > 0
    /\ ~includes(responseContent, Str_NO_TEXT_FOUND)

\* analyzeImage(imageUrl) up to the await of the vision request: the
\* entries it logs, the frame it suspends in (none when it has settled) and
\* how it settled
analyzeImageEnter(imageUrl) ==
    LET called == <<[ev |-> "analyzeImage", imageUrl |-> imageUrl,
                     openaiClient |-> openaiClientImage]>>
    IN IF openaiClientImage = Undefined
       THEN [events |-> called
                \o <<ConsoleError("Error analyzing image with OpenAI:",
                                  "TypeError"),
                     Settled(analyzeImageCatch)>>,
             frames |-> <<>>,
             ret |-> analyzeImageCatch]
       ELSE [events |-> called
                \o <<[ev |-> "create", model |-> "gpt-4-vision-preview",
                      ask |-> "vision", imageUrl |-> imageUrl]>>,
             frames |-> <<[fn |-> "analyzeImage", pc |-> "create",
                           imageUrl |-> imageUrl, responseContent |-> <<>>]>>,
             ret |-> NoRet]

\* a caller outside the pipeline calls analyzeImage(imageUrl)
callAnalyzeImage ==
    /\ phase = "free"
    /\ stack = <<>>
    /\ log = <<>>
    /\ \E imageUrl \in ImageUrls :
          LET e == analyzeImageEnter(imageUrl)
          IN Run(1, e.frames, e.ret, e.events)

\* the vision request settles: analyzeImage returns, or calls isEnglish on
\* the response content and awaits its verdict
analyzeImageResume(t) ==
    /\ stacks[t] # <<>>
    /\ Top(t).fn = "analyzeImage"
    /\ Top(t).pc = "create"
    /\ \E r \in VisionChoices(t) :
          LET got == <<[ev |-> "response", ask |-> "vision", out |-> r]>>
              responseContent == analyzeImageContent(r)
              tried == analyzeImageTry(responseContent)
              parseError ==
                  <<ConsoleError("Error parsing JSON response from OpenAI:",
                                 "parseError")>>
          IN IF ~HasMessage(r)
             THEN Run(t, Pop(t), analyzeImageCatch,
                      logs[t] \o got
                        \o <<ConsoleError("Error analyzing image with OpenAI:",
                                          r.kind),
                             Settled(analyzeImageCatch)>>)
             ELSE IF tried.ok
             THEN Run(t, Pop(t), Return("analyzeImage", tried.value),
                      logs[t] \o got
                        \o <<Settled(Return("analyzeImage", tried.value))>>)
             ELSE IF analyzeImageSecondAttempt(responseContent)
             THEN \E d \in DetectorChoices(t) :
                     LET e == isEnglishEnter(responseContent, d)
                     IN Run(t,
                            Append(Pop(t),
                                   [Top(t) EXCEPT !.pc = "isEnglish",
                                       !.responseContent = responseContent])
                                \o e.frames,
                            e.ret,
                            logs[t] \o got \o parseError \o e.events)
             ELSE LET out == Return("analyzeImage", ImageResult(JSStr(<<>>), TRUE))
                  IN Run(t, Pop(t), out,
                         logs[t] \o got \o parseError \o <<Settled(out)>>)

\* isEnglish has settled: return { text: responseContent, isEnglish: isTextEnglish }
analyzeImageAfterIsEnglish(t) ==
    /\ stacks[t] # <<>>
    /\ Top(t).fn = "analyzeImage"
    /\ Top(t).pc = "isEnglish"
    /\ LET out == IF rets[t].kind = "return"
                  THEN Return("analyzeImage",
                              ImageResult(JSStr(Top(t).responseContent),
                                          rets[t].value))
                  ELSE analyzeImageCatch
           error == IF rets[t].kind = "return" THEN <<>>
                    ELSE <<ConsoleError("Error analyzing image with OpenAI:",
                                        "isEnglish")>>
       IN Run(t, Pop(t), out, logs[t] \o error \o <<Settled(out)>>)

(***************************************************************************)
(* services/language.ts: translateText                                     *)
(***************************************************************************)
\* mutant: the catch block hands the error on
translateTextCatchRethrow == Throw("translateText")

\* catch (error) { console.error(...); return 'Error translating text.'; }
translateTextCatch == Return("translateText", Str_ErrorTranslating)

\* response.choices[0].message.content?.trim() || 'Translation error'
translateTextResult(r) ==
    IF r.kind = "content" /\ trim(r.content) # <<>>
    THEN trim(r.content)
    ELSE Str_TranslationError

\* mutant: a response without content raises instead of yielding the
\* placeholder
translateTextAfterCreateRaises(r) ==
    IF r.kind = "content" /\ trim(r.content) # <<>>
    THEN Return("translateText", trim(r.content))
    ELSE Throw("translateText")

\* the function from the reply of the request to its return
translateTextAfterCreate(r) ==
    IF HasMessage(r)
    THEN Return("translateText", translateTextResult(r))
    ELSE translateTextCatch

\* mutant: the handle is read outside the try block
translateTextEnterUnguarded(text) ==
    LET called == <<[ev |-> "translateText", text |-> text,
                     openaiClient |-> openaiClientLanguage]>>
    IN IF openaiClientLanguage = Undefined
       THEN [events |-> called \o <<Settled(Throw("translateText"))>>,
             frames |-> <<>>,
             ret |-> Throw("translateText")]
       ELSE [events |-> called
                \o <<[ev |-> "create", model |-> "gpt-3.5-turbo",
                      ask |-> "translate", text |-> text]>>,
             frames |-> <<[fn |-> "translateText", pc |-> "create",
                           text |-> text]>>,
             ret |-> NoRet]

\* translateText(text) up to its await: the entries it logs, the frame it
\* suspends in (none when it has settled) and how it settled
translateTextEnter(text) ==
    LET called == <<[ev |-> "translateText", text |-> text,
                     openaiClient |-> openaiClientLanguage]>>
    IN IF openaiClientLanguage = Undefined
       THEN [events |-> called
                \o <<ConsoleError("Error translating text:", "TypeError"),
                     Settled(translateTextCatch)>>,
             frames |-> <<>>,
             ret |-> translateTextCatch]
       ELSE [events |-> called
                \o <<[ev |-> "create", model |-> "gpt-3.5-turbo",
                      ask |-> "translate", text |-> text]>>,
             frames |-> <<[fn |-> "translateText", pc |-> "create",
                           text |-> text]>>,
             ret |-> NoRet]

\* a caller outside the pipeline calls translateText(text)
callTranslateText ==
    /\ phase = "free"
    /\ stack = <<>>
    /\ log = <<>>
    /\ \E text \in Texts :
          LET e == translateTextEnter(text)
          IN Run(1, e.frames, e.ret, e.events)

\* mutant: a request that failed is issued once more
translateTextSettleRetry(frame, r) ==
    LET out == translateTextAfterCreate(r)
        got == <<[ev |-> "response", ask |-> "translate", out |-> r]>>
        error == IF HasMessage(r) THEN <<>>
                 ELSE <<ConsoleError("Error translating text:", r.kind)>>
    IN IF ~HasMessage(r) /\ frame.pc = "create"
       THEN [events |-> got
                \o <<[ev |-> "create", model |-> "gpt-3.5-turbo",
                      ask |-> "translate", text |-> frame.text]>>,
             frames |-> <<[frame EXCEPT !.pc = "retry"]>>,
             ret |-> NoRet]
       ELSE [events |-> got \o error \o <<Settled(out)>>,
             frames |-> <<>>,
             ret |-> out]

\* translateText from the reply r of its request on: the entries it logs,
\* the frame it suspends in (none: it has no second await) and how it settles
translateTextSettle(frame, r) ==
    LET out == translateTextAfterCreate(r)
        got == <<[ev |-> "response", ask |-> "translate", out |-> r]>>
        error == IF HasMessage(r) THEN <<>>
                 ELSE <<ConsoleError("Error translating text:", r.kind)>>
    IN [events |-> got \o error \o <<Settled(out)>>,
        frames |-> <<>>,
        ret |-> out]

\* the translation request settles and translateText runs to its return
translateTextResume(t) ==
    /\ stacks[t] # <<>>
    /\ Top(t).fn = "translateText"
    /\ \E r \in TranslateChoices(t) :
          LET e == translateTextSettle(Top(t), r)
          IN Run(t, Pop(t) \o e.frames, e.ret, logs[t] \o e.events)

(***************************************************************************)
(* index.ts: bot.on('channel_post')                                        *)
(***************************************************************************)
\* the posts of a channel: ctx.update.channel_post with its message id, its
\* chat, and a text and a photo list that may each be missing or empty
PostPhotos ==
    {JSUndefined, JSArr(<<>>),
     JSArr(<<[file_id |-> "small_photo_id"], [file_id |-> "large_photo_id"]>>)}
PostIds == {[message_id |-> 123, chat |-> 456], [message_id |-> 124, chat |-> 457]}
Post(id, text, photo) ==
    [message_id |-> id.message_id, chat |-> [id |-> id.chat],
     text |-> text, photo |-> photo]
Posts ==
    {Post(id, text, photo) :
        id \in PostIds,
        text \in {JSUndefined, JSStr(<<>>), JSStr(Txt_Bonjour)},
        photo \in PostPhotos}
\* an update of another kind has no channel_post
Updates == {[channel_post |-> JSUndefined]}
              \cup {[channel_post |-> message] : message \in Posts}

\* ctx.api.getFile: the promise rejects, or resolves to a File with or
\* without a file_path
GetFileOutcomes ==
    {[kind |-> "reject"],
     [kind |-> "file", file_path |-> JSUndefined],
     [kind |-> "file", file_path |-> JSStr(Path_File)]}
\* two posts are compared with the file found
GetFileChoices(t) ==
    IF phase \in {"free", "legacy"} THEN GetFileOutcomes
    ELSE {[kind |-> "file", file_path |-> JSStr(Path_File)]}

\* ctx.api.sendMessage: the promise resolves or rejects
SendMessageOutcomes == {[kind |-> "ok"], [kind |-> "reject"]}
\* two posts are compared with the replies delivered
SendMessageChoices(t) ==
    IF phase \in {"free", "legacy"} THEN SendMessageOutcomes
    ELSE {[kind |-> "ok"]}

\* the handler's frame: the post it was called for, the content unit it is
\* at and the call it awaits
Handler(message, unit, pc) ==
    [fn |-> "channel_post", unit |-> unit, pc |-> pc, message |-> message]

\* the handler returns
channelPostReturn ==
    [events |-> <<Settled(Return("channel_post", JSUndefined))>>,
     frames |-> <<>>,
     ret |-> Return("channel_post", JSUndefined)]

\* an awaited call rejected: the handler rejects and bot.catch logs it
channelPostThrow(cause) ==
    [events |-> <<Settled(Throw("channel_post")),
                  ConsoleError("Bot error:", cause)>>,
     frames |-> <<>>,
     ret |-> Throw("channel_post")]

\* !message
channelPostMissing(message) == "message_id" \notin DOMAIN message

\* mutant: a text counts as soon as the post has one, empty or not
channelPostHasTextDefined(message) == message.text.t # "undefined"

\* if (message.text)
channelPostHasText(message) == Truthy(message.text)

\* if (message.photo && message.photo.length > 0)
channelPostHasPhoto(message) ==
    /\ Truthy(message.photo)
    /\ Len(message.photo.a) > 0

\* mutant: the verdict is read the wrong way round
channelPostTextFlaggedInverted(english) == english

\* if (!english)
channelPostTextFlagged(english) == ~english

\* mutant: the extracted text is not looked at
channelPostImageFlaggedAnyText(text, isTextEnglish) == ~isTextEnglish

\* if (text && !isTextEnglish)
channelPostImageFlagged(text, isTextEnglish) ==
    /\ Truthy(text)
    /\ ~isTextEnglish

\* mutant: the reply is addressed to the chat only, not to the post
channelPostReplyUnthreaded(message, translation) ==
    [ev |-> "sendMessage",
     chat_id |-> message.chat.id,
     text |-> Str_ReplyPrefix \o translation \o Str_ReplySuffix,
     reply_to_message_id |-> message.chat.id]

\* ctx.api.sendMessage(message.chat.id, `Translation: ${translation}\n\n...`,
\*                     { reply_to_message_id: message.message_id })
channelPostReply(message, translation) ==
    [ev |-> "sendMessage",
     chat_id |-> message.chat.id,
     text |-> Str_ReplyPrefix \o translation \o Str_ReplySuffix,
     reply_to_message_id |-> message.message_id]

\* `https://api.telegram.org/file/bot${TELEGRAM_BOT_TOKEN}/${fileInfo.file_path}`
channelPostFileUrl(file_path) ==
    Str_FileUrlPrefix \o TELEGRAM_BOT_TOKEN \o <<"/">> \o file_path

\* mutant: the post is kept in one place for all handlers, so a handler
\* reads the post of the one that started last
channelPostMessageShared(t) ==
    LET running == {u \in Tasks : InHandler(u)}
        last == CHOOSE u \in running : \A v \in running : v <= u
    IN stacks[last][1].message

\* const message: the post of the handler of task t
channelPostMessage(t) == stacks[t][1].message

\* mutant: the first photo of the list is taken
channelPostPhotoFirst(message) ==
    IF channelPostHasPhoto(message)
    THEN [events |-> <<[ev |-> "getFile", file_id |-> message.photo.a[1].file_id]>>,
          frames |-> <<Handler(message, "photo", "getFile")>>,
          ret |-> NoRet]
    ELSE channelPostReturn

\* the image part of the handler up to its first await
channelPostPhoto(message) ==
    IF channelPostHasPhoto(message)
    THEN LET photo == message.photo.a[Len(message.photo.a)]
         IN [events |-> <<[ev |-> "getFile", file_id |-> photo.file_id]>>,
             frames |-> <<Handler(message, "photo", "getFile")>>,
             ret |-> NoRet]
    ELSE channelPostReturn

\* the handler up to its first await, d being what detect() does if
\* isEnglish is called
channelPostEnter(update, d) ==
    LET message == update.channel_post
        arrived == <<[ev |-> "channel_post", update |-> update]>>
    IN IF channelPostMissing(message)
       THEN [events |-> arrived
                \o <<[ev |-> "console.log",
                      msg |-> "Received empty channel post"]>>
                \o channelPostReturn.events,
             frames |-> <<>>,
             ret |-> channelPostReturn.ret]
       ELSE IF channelPostHasText(message)
       THEN LET e == isEnglishEnter(message.text.s, d)
            IN [events |-> arrived \o e.events,
                frames |-> <<Handler(message, "text", "isEnglish")>> \o e.frames,
                ret |-> e.ret]
       ELSE LET p == channelPostPhoto(message)
            IN [events |-> arrived \o p.events,
                frames |-> p.frames,
                ret |-> p.ret]

\* the bot receives an update and calls the handler
channelPost ==
    /\ phase = "free"
    /\ stack = <<>>
    /\ log = <<>>
    /\ \E update \in Updates, d \in HandlerDetectorOutcomes :
          LET e == channelPostEnter(update, d)
          IN Run(1, e.frames, e.ret, e.events)

\* the handler of task t awaits the call pc of the unit
channelPostAwaits(t, unit, pc) ==
    /\ stacks[t] # <<>>
    /\ Top(t).fn = "channel_post"
    /\ Top(t).unit = unit
    /\ Top(t).pc = pc

\* task t goes on with e after what its log holds, its frame replaced
channelPostGoesOn(t, e) ==
    Run(t, Pop(t) \o e.frames, e.ret, logs[t] \o e.events)

\* translateText(text) is called and awaited
channelPostTranslate(t, text) ==
    LET e == translateTextEnter(text)
    IN [events |-> e.events,
        frames |-> <<[Top(t) EXCEPT !.pc = "translateText"]>> \o e.frames,
        ret |-> e.ret]

\* isEnglish(text) has settled
channelPostAfterIsEnglish(t) ==
    /\ channelPostAwaits(t, "text", "isEnglish")
    /\ LET message == Top(t).message
       IN IF rets[t].kind = "throw"
          THEN channelPostGoesOn(t, channelPostThrow("isEnglish"))
          ELSE IF channelPostTextFlagged(rets[t].value)
          THEN channelPostGoesOn(t, channelPostTranslate(t, message.text.s))
          ELSE channelPostGoesOn(t, channelPostPhoto(message))

\* translateText has settled: the reply is sent and awaited
channelPostAfterTranslateText(t) ==
    /\ \E unit \in {"text", "photo"} : channelPostAwaits(t, unit, "translateText")
    /\ IF rets[t].kind = "throw"
       THEN channelPostGoesOn(t, channelPostThrow("translateText"))
       ELSE channelPostGoesOn(t,
               [events |-> <<channelPostReply(channelPostMessage(t),
                                              rets[t].value)>>,
                frames |-> <<[Top(t) EXCEPT !.pc = "sendMessage"]>>,
                ret |-> NoRet])

\* sendMessage has settled
channelPostAfterSendMessage(t) ==
    /\ \E unit \in {"text", "photo"} : channelPostAwaits(t, unit, "sendMessage")
    /\ \E out \in SendMessageChoices(t) :
          LET settled == <<[ev |-> "sendMessage.settled", out |-> out]>>
              next == IF out.kind = "reject"
                      THEN channelPostThrow("sendMessage")
                      ELSE IF Top(t).unit = "text"
                      THEN channelPostPhoto(Top(t).message)
                      ELSE channelPostReturn
          IN channelPostGoesOn(t, [next EXCEPT !.events = settled \o @])

\* getFile has settled
channelPostAfterGetFile(t) ==
    /\ channelPostAwaits(t, "photo", "getFile")
    /\ \E out \in GetFileChoices(t) :
          LET settled == <<[ev |-> "getFile.settled", out |-> out]>>
              next ==
                  IF out.kind = "reject"
                  THEN channelPostThrow("getFile")
                  ELSE IF ~Truthy(out.file_path)
                  THEN [channelPostReturn EXCEPT !.events =
                          <<ConsoleError("No file path found for image", "")>>
                              \o @]
                  ELSE LET e == analyzeImageEnter(
                                    channelPostFileUrl(out.file_path.s))
                       IN [events |-> e.events,
                           frames |-> <<[Top(t) EXCEPT !.pc = "analyzeImage"]>>
                                         \o e.frames,
                           ret |-> e.ret]
          IN channelPostGoesOn(t, [next EXCEPT !.events = settled \o @])

\* analyzeImage(fileUrl) has settled
channelPostAfterAnalyzeImage(t) ==
    /\ channelPostAwaits(t, "photo", "analyzeImage")
    /\ IF rets[t].kind = "throw"
       THEN channelPostGoesOn(t, channelPostThrow("analyzeImage"))
       ELSE IF channelPostImageFlagged(rets[t].value.text,
                                       rets[t].value.isEnglish)
       THEN channelPostGoesOn(t, channelPostTranslate(t, rets[t].value.text.s))
       ELSE channelPostGoesOn(t, channelPostReturn)

(***************************************************************************)
(* Two posts, handled one after the other and then again at once.          *)
(***************************************************************************)
\* the posts the comparison is made on: task t's has a message id of its
\* own, a text or a photo or both
ConcurrentPosts(t) ==
    {Post([message_id |-> 122 + t, chat |-> 455 + t], text, photo) :
        text \in {JSUndefined, JSStr(Txt_Bonjour)},
        photo \in PostPhotos \ {JSArr(<<>>)}}
        \ {Post([message_id |-> 122 + t, chat |-> 455 + t],
                JSUndefined, JSUndefined)}

\* a post arrives while no other is being handled
channelPostAlone(t) ==
    /\ phase = "sequential"
    /\ \A u \in Tasks : stacks[u] = <<>>
    /\ logs[t] = <<>>
    /\ \E message \in ConcurrentPosts(t), d \in ConcurrentDetectorOutcomes :
          LET e == channelPostEnter([channel_post |-> message], d)
          IN Run(t, e.frames, e.ret, e.events)

\* both posts have been handled: what was observed is kept and the same
\* posts are about to arrive again
replay ==
    /\ phase = "sequential"
    /\ \A t \in Tasks : stacks[t] = <<>> /\ logs[t] # <<>>
    /\ phase' = "concurrent"
    /\ reference' = logs
    /\ logs' = [t \in Tasks |-> <<>>]
    /\ rets' = [t \in Tasks |-> NoRet]
    /\ UNCHANGED <<openaiClientLanguage, openaiClientImage, stacks>>

\* the post of task t arrives again, whatever the other handler is at
channelPostAgain(t) ==
    /\ phase = "concurrent"
    /\ logs[t] = <<>>
    /\ \E d \in ConcurrentDetectorOutcomes :
          LET e == channelPostEnter(reference[t][1].update, d)
          IN Run(t, e.frames, e.ret, e.events)

(***************************************************************************)
(* index.ts, the single-file pipeline: isEnglish, translateText,           *)
(* analyzeImage and the channel_post handler as the file itself defines    *)
(* them, around its own client.  Task t runs this copy.                    *)
(***************************************************************************)
\* const openai = new OpenAI({ apiKey }): set when the file is loaded
openai == "openai"

\* isEnglish(text) of index.ts up to its await, d being what detect(text)
\* does
legacyIsEnglishEnter(text, d) ==
    LET called == <<[ev |-> "isEnglish", text |-> text, openaiClient |-> openai],
                    [ev |-> "detect", text |-> text, out |-> d]>>
        true == Return("isEnglish", TRUE)
    IN IF d.kind = "throw"
       THEN [events |-> called
                \o <<ConsoleError("Error detecting language:", "detect"),
                     Settled(true)>>,
             frames |-> <<>>,
             ret |-> true]
       ELSE IF d.kind = "list" /\ Len(d.list) > 0 /\ d.list[1].lang = "en"
       THEN [events |-> called \o <<Settled(true)>>,
             frames |-> <<>>,
             ret |-> true]
       ELSE [events |-> called
                \o <<[ev |-> "create", model |-> "gpt-3.5-turbo",
                      ask |-> "classify", text |-> text]>>,
             frames |-> <<[fn |-> "isEnglish", pc |-> "create", text |-> text]>>,
             ret |-> NoRet]

\* the classification request of index.ts settles: result.includes('english')
\* of the trimmed, lower-cased content, or true from the catch block
legacyIsEnglishResume(t) ==
    /\ stacks[t] # <<>>
    /\ Top(t).fn = "isEnglish"
    /\ Top(t).pc = "create"
    /\ \E r \in ClassifyChoices(t) :
          LET got == <<[ev |-> "response", ask |-> "classify", out |-> r]>>
              result == IF r.kind = "content"
                        THEN toLowerCase(trim(r.content))
                        ELSE <<>>
              out == IF r.kind \in {"noContent", "content"}
                     THEN Return("isEnglish", includes(result, Str_english))
                     ELSE Return("isEnglish", TRUE)
              error == IF r.kind \in {"noContent", "content"} THEN <<>>
                       ELSE <<ConsoleError("Error detecting language:", r.kind)>>
          IN Run(t, Pop(t), out, logs[t] \o got \o error \o <<Settled(out)>>)

\* translateText(text) of index.ts up to its await
legacyTranslateTextEnter(text) ==
    [events |-> <<[ev |-> "translateText", text |-> text,
                   openaiClient |-> openai],
                  [ev |-> "create", model |-> "gpt-3.5-turbo",
                   ask |-> "translate", text |-> text]>>,
     frames |-> <<[fn |-> "translateText", pc |-> "create", text |-> text]>>,
     ret |-> NoRet]

\* the translation request of index.ts settles: the trimmed content, or
\* 'Translation error', or 'Error translating text.' from the catch block
legacyTranslateTextResume(t) ==
    /\ stacks[t] # <<>>
    /\ Top(t).fn = "translateText"
    /\ \E r \in TranslateChoices(t) :
          LET got == <<[ev |-> "response", ask |-> "translate", out |-> r]>>
              out == IF r.kind = "content" /\ trim(r.content) # <<>>
                     THEN Return("translateText", trim(r.content))
                     ELSE IF r.kind \in {"noContent", "content"}
                     THEN Return("translateText", Str_TranslationError)
                     ELSE Return("translateText", Str_ErrorTranslating)
              error == IF r.kind \in {"noContent", "content"} THEN <<>>
                       ELSE <<ConsoleError("Error translating text:", r.kind)>>
          IN Run(t, Pop(t), out, logs[t] \o got \o error \o <<Settled(out)>>)

\* analyzeImage(imageUrl) of index.ts up to the await of the vision request
legacyAnalyzeImageEnter(imageUrl) ==
    [events |-> <<[ev |-> "analyzeImage", imageUrl |-> imageUrl,
                   openaiClient |-> openai],
                  [ev |-> "create", model |-> "gpt-4-vision-preview",
                   ask |-> "vision", imageUrl |-> imageUrl]>>,
     frames |-> <<[fn |-> "analyzeImage", pc |-> "create",
                   imageUrl |-> imageUrl, responseContent |-> <<>>]>>,
     ret |-> NoRet]

\* the vision request of index.ts settles: the parsed result is returned,
\* or isEnglish is called on the response content and awaited, or the
\* empty result is returned
legacyAnalyzeImageResume(t) ==
    /\ stacks[t] # <<>>
    /\ Top(t).fn = "analyzeImage"
    /\ Top(t).pc = "create"
    /\ \E r \in VisionChoices(t) :
          LET got == <<[ev |-> "response", ask |-> "vision", out |-> r]>>
              empty == Return("analyzeImage", [text |-> JSStr(<<>>),
                                               isEnglish |-> TRUE])
              responseContent ==
                  IF r.kind = "content" /\ trim(r.content) # <<>>
                  THEN trim(r.content)
                  ELSE Str_DefaultJson
              parsed == JSONparse(responseContent)
              result == parsed.val
              verdict == GetProperty(result, Str_isEnglish)
              structured ==
                  Return("analyzeImage",
                         [text |-> OrElse(GetProperty(result, Str_text),
                                          JSStr(<<>>)),
                          isEnglish |-> ~(verdict.t = "boolean"
                                            /\ verdict.b = FALSE)])
              parseError ==
                  <<ConsoleError("Error parsing JSON response from OpenAI:",
                                 "parseError")>>
          IN IF r.kind \notin {"noContent", "content"}
             THEN Run(t, Pop(t), empty,
                      logs[t] \o got
                        \o <<ConsoleError("Error analyzing image with OpenAI:",
                                          r.kind),
                             Settled(empty)>>)
             ELSE IF parsed.ok /\ CanReadProperty(result)
             THEN Run(t, Pop(t), structured,
                      logs[t] \o got \o <<Settled(structured)>>)
             ELSE IF /\ Len(responseContent) > 0
                     /\ ~includes(responseContent, Str_NO_TEXT_FOUND)
             THEN \E d \in DetectorChoices(t) :
                     LET e == legacyIsEnglishEnter(responseContent, d)
                     IN Run(t,
                            Append(Pop(t),
                                   [Top(t) EXCEPT !.pc = "isEnglish",
                                       !.responseContent = responseContent])
                                \o e.frames,
                            e.ret,
                            logs[t] \o got \o parseError \o e.events)
             ELSE Run(t, Pop(t), empty,
                      logs[t] \o got \o parseError \o <<Settled(empty)>>)

\* isEnglish has settled inside analyzeImage of index.ts:
\* return { text: responseContent, isEnglish: isTextEnglish }
legacyAnalyzeImageAfterIsEnglish(t) ==
    /\ stacks[t] # <<>>
    /\ Top(t).fn = "analyzeImage"
    /\ Top(t).pc = "isEnglish"
    /\ LET out == IF rets[t].kind = "return"
                  THEN Return("analyzeImage",
                              [text |-> JSStr(Top(t).responseContent),
                               isEnglish |-> rets[t].value])
                  ELSE Return("analyzeImage", [text |-> JSStr(<<>>),
                                               isEnglish |-> TRUE])
           error == IF rets[t].kind = "return" THEN <<>>
                    ELSE <<ConsoleError("Error analyzing image with OpenAI:",
                                        "isEnglish")>>
       IN Run(t, Pop(t), out, logs[t] \o error \o <<Settled(out)>>)

\* mutant: the single-file handler closes its reply with a full stop
legacyReplyFullStop(message, translation) ==
    [ev |-> "sendMessage",
     chat_id |-> message.chat.id,
     text |-> Str_ReplyPrefix \o translation \o Str_ReplySuffix \o <<".">>,
     reply_to_message_id |-> message.message_id]

\* ctx.api.sendMessage(message.chat.id, `Translation: ${translation}\n\n...`,
\*                     { reply_to_message_id: message.message_id })
legacyReply(message, translation) ==
    [ev |-> "sendMessage",
     chat_id |-> message.chat.id,
     text |-> Str_ReplyPrefix \o translation \o Str_ReplySuffix,
     reply_to_message_id |-> message.message_id]

\* the image part of the handler of index.ts up to its first await
legacyPhoto(message) ==
    IF Truthy(message.photo) /\ Len(message.photo.a) > 0
    THEN LET photo == message.photo.a[Len(message.photo.a)]
         IN [events |-> <<[ev |-> "getFile", file_id |-> photo.file_id]>>,
             frames |-> <<Handler(message, "photo", "getFile")>>,
             ret |-> NoRet]
    ELSE channelPostReturn

\* the handler of index.ts up to its first await, d being what detect()
\* does if isEnglish is called
legacyChannelPostEnter(update, d) ==
    LET message == update.channel_post
        arrived == <<[ev |-> "channel_post", update |-> update]>>
    IN IF "message_id" \notin DOMAIN message
       THEN [events |-> arrived
                \o <<[ev |-> "console.log",
                      msg |-> "Received empty channel post"]>>
                \o channelPostReturn.events,
             frames |-> <<>>,
             ret |-> channelPostReturn.ret]
       ELSE IF Truthy(message.text)
       THEN LET e == legacyIsEnglishEnter(message.text.s, d)
            IN [events |-> arrived \o e.events,
                frames |-> <<Handler(message, "text", "isEnglish")>> \o e.frames,
                ret |-> e.ret]
       ELSE LET p == legacyPhoto(message)
            IN [events |-> arrived \o p.events,
                frames |-> p.frames,
                ret |-> p.ret]

\* translateText(text) of index.ts is called and awaited
legacyTranslate(t, text) ==
    LET e == legacyTranslateTextEnter(text)
    IN [events |-> e.events,
        frames |-> <<[Top(t) EXCEPT !.pc = "translateText"]>> \o e.frames,
        ret |-> e.ret]

\* const english = await isEnglish(text); if (!english)
legacyChannelPostAfterIsEnglish(t) ==
    /\ channelPostAwaits(t, "text", "isEnglish")
    /\ IF rets[t].kind = "throw"
       THEN channelPostGoesOn(t, channelPostThrow("isEnglish"))
       ELSE IF ~rets[t].value
       THEN channelPostGoesOn(t, legacyTranslate(t, Top(t).message.text.s))
       ELSE channelPostGoesOn(t, legacyPhoto(Top(t).message))

\* translateText has settled in the handler of index.ts: the reply is sent
\* and awaited
legacyChannelPostAfterTranslateText(t) ==
    /\ \E unit \in {"text", "photo"} : channelPostAwaits(t, unit, "translateText")
    /\ IF rets[t].kind = "throw"
       THEN channelPostGoesOn(t, channelPostThrow("translateText"))
       ELSE channelPostGoesOn(t,
               [events |-> <<legacyReply(Top(t).message, rets[t].value)>>,
                frames |-> <<[Top(t) EXCEPT !.pc = "sendMessage"]>>,
                ret |-> NoRet])

\* sendMessage has settled in the handler of index.ts
legacyChannelPostAfterSendMessage(t) ==
    /\ \E unit \in {"text", "photo"} : channelPostAwaits(t, unit, "sendMessage")
    /\ \E out \in SendMessageChoices(t) :
          LET settled == <<[ev |-> "sendMessage.settled", out |-> out]>>
              next == IF out.kind = "reject"
                      THEN channelPostThrow("sendMessage")
                      ELSE IF Top(t).unit = "text"
                      THEN legacyPhoto(Top(t).message)
                      ELSE channelPostReturn
          IN channelPostGoesOn(t, [next EXCEPT !.events = settled \o @])

\* getFile has settled in the handler of index.ts
legacyChannelPostAfterGetFile(t) ==
    /\ channelPostAwaits(t, "photo", "getFile")
    /\ \E out \in GetFileChoices(t) :
          LET settled == <<[ev |-> "getFile.settled", out |-> out]>>
              next ==
                  IF out.kind = "reject"
                  THEN channelPostThrow("getFile")
                  ELSE IF ~Truthy(out.file_path)
                  THEN [channelPostReturn EXCEPT !.events =
                          <<ConsoleError("No file path found for image", "")>>
                              \o @]
                  ELSE LET fileUrl == Str_FileUrlPrefix \o TELEGRAM_BOT_TOKEN
                                         \o <<"/">> \o out.file_path.s
                           e == legacyAnalyzeImageEnter(fileUrl)
                       IN [events |-> e.events,
                           frames |-> <<[Top(t) EXCEPT !.pc = "analyzeImage"]>>
                                         \o e.frames,
                           ret |-> e.ret]
          IN channelPostGoesOn(t, [next EXCEPT !.events = settled \o @])

\* const { text, isEnglish } = await analyzeImage(fileUrl);
\* if (text && !isEnglish)
legacyChannelPostAfterAnalyzeImage(t) ==
    /\ channelPostAwaits(t, "photo", "analyzeImage")
    /\ IF rets[t].kind = "throw"
       THEN channelPostGoesOn(t, channelPostThrow("analyzeImage"))
       ELSE IF Truthy(rets[t].value.text) /\ ~rets[t].value.isEnglish
       THEN channelPostGoesOn(t, legacyTranslate(t, rets[t].value.text.s))
       ELSE channelPostGoesOn(t, channelPostReturn)

(***************************************************************************)
(* One post, handled by the service modules and by the single file.        *)
(***************************************************************************)
\* the update is delivered to the bot built on the service modules
channelPostServices(t) ==
    /\ phase = "legacy"
    /\ logs[t] = <<>>
    /\ \E d \in HandlerDetectorOutcomes :
          LET e == channelPostEnter(reference[t][1].update, d)
          IN Run(t, e.frames, e.ret, e.events)

\* the same update is delivered to the bot of the single file
channelPostLegacy(t) ==
    /\ phase = "legacy"
    /\ logs[t] = <<>>
    /\ \E d \in HandlerDetectorOutcomes :
          LET e == legacyChannelPostEnter(reference[t][1].update, d)
          IN Run(t, e.frames, e.ret, e.events)

(***************************************************************************)
(* The specification.                                                      *)
(***************************************************************************)
\* a suspended call of task t is resumed: what it awaited has settled
Resume(t) ==
    \/ isEnglishResume(t)
    \/ analyzeImageResume(t)
    \/ analyzeImageAfterIsEnglish(t)
    \/ translateTextResume(t)
    \/ channelPostAfterIsEnglish(t)
    \/ channelPostAfterTranslateText(t)
    \/ channelPostAfterSendMessage(t)
    \/ channelPostAfterGetFile(t)
    \/ channelPostAfterAnalyzeImage(t)

Next ==
    \/ clearAllMocks
    \/ setOpenAIClientLanguage
    \/ setOpenAIClientImage
    \/ callIsEnglish
    \/ callAnalyzeImage
    \/ callTranslateText
    \/ channelPost
    \/ \E t \in Tasks : Resume(t)

Spec == Init /\ [][Next]_vars

\* index.ts sets both handles before the bot starts
BotInit ==
    /\ openaiClientLanguage = "openai"
    /\ openaiClientImage = "openai"
    /\ stacks = [t \in Tasks |-> <<>>]
    /\ rets = [t \in Tasks |-> NoRet]
    /\ logs = [t \in Tasks |-> <<>>]
    /\ phase = "free"
    /\ reference = [t \in Tasks |-> <<>>]

\* the running bot: posts arrive one at a time and are handled
BotNext ==
    \/ clearAllMocks
    \/ channelPost
    \/ \E t \in Tasks : Resume(t)

\* every promise a call awaits settles, so a suspended call is resumed
FairSpec == BotInit /\ [][BotNext]_vars /\ WF_vars(\E t \in Tasks : Resume(t))

\* the two-post comparison starts with the bot set up and no post handled
ConcurrentInit ==
    /\ openaiClientLanguage = "openai"
    /\ openaiClientImage = "openai"
    /\ stacks = [t \in Tasks |-> <<>>]
    /\ rets = [t \in Tasks |-> NoRet]
    /\ logs = [t \in Tasks |-> <<>>]
    /\ phase = "sequential"
    /\ reference = [t \in Tasks |-> <<>>]

ConcurrentNext ==
    \/ replay
    \/ \E t \in Tasks :
          \/ channelPostAlone(t)
          \/ channelPostAgain(t)
          \/ Resume(t)

ConcurrentSpec == ConcurrentInit /\ [][ConcurrentNext]_vars

\* the comparison of the two pipelines starts with an update about to be
\* delivered to both bots, the service modules' clients set as index.ts
\* sets them at start-up
LegacyInit ==
    /\ openaiClientLanguage = "openai"
    /\ openaiClientImage = "openai"
    /\ stacks = [t \in Tasks |-> <<>>]
    /\ rets = [t \in Tasks |-> NoRet]
    /\ logs = [t \in Tasks |-> <<>>]
    /\ phase = "legacy"
    /\ \E update \in Updates :
          reference = [t \in Tasks |->
                          <<[ev |-> "channel_post", update |-> update]>>]

\* task 1 runs the service modules, task 2 the single file
LegacyNext ==
    \/ channelPostServices(1)
    \/ Resume(1)
    \/ channelPostLegacy(2)
    \/ legacyIsEnglishResume(2)
    \/ legacyAnalyzeImageResume(2)
    \/ legacyAnalyzeImageAfterIsEnglish(2)
    \/ legacyTranslateTextResume(2)
    \/ legacyChannelPostAfterIsEnglish(2)
    \/ legacyChannelPostAfterTranslateText(2)
    \/ legacyChannelPostAfterSendMessage(2)
    \/ legacyChannelPostAfterGetFile(2)
    \/ legacyChannelPostAfterAnalyzeImage(2)

LegacySpec == LegacyInit /\ [][LegacyNext]_vars

(***************************************************************************)
(* Reading the log of one call made from outside the pipeline.             *)
(***************************************************************************)
\* the call to fn that was made last has settled
Done(fn) == stack = <<>> /\ log # <<>> /\ log[1].ev = fn

\* the handle the called function found when it was called
ClientWasSet == log[1].openaiClient # Undefined

\* what detect() did in a call of isEnglish
Detected == log[2].out

Events(ev) == {k \in DOMAIN log : log[k].ev = ev}
Requests(ask) == {k \in Events("create") : log[k].ask = ask}
Replies(ask) == {k \in Events("response") : log[k].ask = ask}

\* s has the characters of p somewhere in it
Contains(s, p) ==
    \E k \in 0..(Len(s) - Len(p)) : SubSeq(s, k + 1, k + Len(p)) = p

(***************************************************************************)
(* C1: whenever the local detector returns a non-empty list whose first    *)
(* entry has lang 'en', isEnglish returns true and has issued no remote    *)
(* request, whatever the probability of that entry.                        *)
(***************************************************************************)
TopGuessEnglish ==
    /\ Detected.kind = "list"
    /\ Detected.list # <<>>
    /\ Detected.list[1].lang = "en"

C1_FastPathNoRemote ==
    (Done("isEnglish") /\ TopGuessEnglish)
        => /\ ret = Return("isEnglish", TRUE)
           /\ Events("create") = {}

\* the fast path taken on a top guess 'en' of the lowest probability
C1_Witness ==
    /\ Done("isEnglish")
    /\ TopGuessEnglish
    /\ Detected.list[1].prob = 0
    /\ log[1].text = Txt_Bonjour
    /\ ret = Return("isEnglish", TRUE)

(***************************************************************************)
(* C2: when the local detector throws, isEnglish falls back to the remote  *)
(* check: it issues the classification request and returns the verdict     *)
(* derived from the reply.  (Stated for calls that find the client handle  *)
(* set, the only ones that can issue a request.)                           *)
(***************************************************************************)
DetectorThrew == Detected.kind = "throw"

\* the verdict the reply r stands for: 'english' is in its content
ReplyVerdict(r) ==
    /\ r.kind = "content"
    /\ Contains(toLowerCase(trim(r.content)), Str_english)

C2_DetectorThrowFallsBack ==
    (Done("isEnglish") /\ ClientWasSet /\ DetectorThrew)
        => /\ Cardinality(Requests("classify")) = 1
           /\ \E k \in Replies("classify") :
                 ret = Return("isEnglish", ReplyVerdict(log[k].out))

(***************************************************************************)
(* C3: when the detector's top guess is not 'en' and the remote check      *)
(* answers 'non-english', isEnglish returns false; when it answers         *)
(* 'english', isEnglish returns true.  (Stated for calls that find the     *)
(* client handle set.)                                                     *)
(***************************************************************************)
TopGuessOther ==
    /\ Detected.kind = "list"
    /\ Detected.list # <<>>
    /\ Detected.list[1].lang # "en"

C3_TwoTokens ==
    (Done("isEnglish") /\ ClientWasSet /\ TopGuessOther)
        => \A k \in Replies("classify") :
              /\ log[k].out = [kind |-> "content", content |-> Rep_nonEnglish]
                    => ret = Return("isEnglish", FALSE)
              /\ log[k].out = [kind |-> "content", content |-> Str_english]
                    => ret = Return("isEnglish", TRUE)

(***************************************************************************)
(* C4: when the detector returns without throwing and its result is empty  *)
(* or its first entry's lang is not 'en', isEnglish issues exactly one     *)
(* classification request, and when that request succeeds it returns true  *)
(* exactly when the trimmed, lower-cased reply content contains 'english'  *)
(* (absent or empty content gives false).  (Stated for calls that find the *)
(* client handle set; a detector that returns null counts as returning an  *)
(* empty result.)                                                          *)
(***************************************************************************)
DetectorInconclusive ==
    \/ Detected.kind = "null"
    \/ Detected.kind = "list" /\ Detected.list = <<>>
    \/ TopGuessOther

C4_RemoteVerdict ==
    (Done("isEnglish") /\ ClientWasSet /\ DetectorInconclusive)
        => /\ Cardinality(Requests("classify")) = 1
           /\ Cardinality(Replies("classify")) = 1
           /\ \A k \in Requests("classify") : log[k].text = log[1].text
           /\ \A k \in Replies("classify") :
                 HasMessage(log[k].out)
                    => ret = Return("isEnglish", ReplyVerdict(log[k].out))

\* a reply that reads 'english' only once trimmed and lower-cased
C4_Witness ==
    /\ Done("isEnglish")
    /\ ClientWasSet
    /\ Detected.kind = "list" /\ Detected.list = <<>>
    /\ \E k \in Replies("classify") :
          /\ log[k].out.kind = "content"
          /\ log[k].out.content = <<" ">> \o Rep_NON_ENGLISH \o <<"\n">>
    /\ ret = Return("isEnglish", TRUE)

(***************************************************************************)
(* C5: if the classification request fails (it throws, or its response has *)
(* no usable choices[0].message), isEnglish returns true and does not      *)
(* throw.                                                                  *)
(***************************************************************************)
RequestFailed(r) == r.kind \in {"reject", "noChoice", "noMessage"}

C5_RemoteFailureGivesTrue ==
    (Done("isEnglish") /\ \E k \in Replies("classify") : RequestFailed(log[k].out))
        => ret = Return("isEnglish", TRUE)

\* a response without choices[0].message has been answered with true
C5_Witness ==
    /\ Done("isEnglish")
    /\ \E k \in Replies("classify") : log[k].out.kind = "noMessage"
    /\ ret = Return("isEnglish", TRUE)

(***************************************************************************)
(* C6: when the local detector throws, isEnglish returns true and does not *)
(* propagate the error.                                                    *)
(***************************************************************************)
C6_DetectorThrowGivesTrue ==
    (Done("isEnglish") /\ DetectorThrew) => ret = Return("isEnglish", TRUE)

\* the detector threw with the client in place, and true came back
C6_Witness ==
    /\ Done("isEnglish")
    /\ ClientWasSet
    /\ DetectorThrew
    /\ ret.kind = "return"
    /\ ret.value

(***************************************************************************)
(* C7: isEnglish("") returns true for every behaviour of the local         *)
(* detector and of the remote check.                                       *)
(***************************************************************************)
C7_EmptyStringIsEnglish ==
    (Done("isEnglish") /\ log[1].text = <<>>) => ret = Return("isEnglish", TRUE)

(***************************************************************************)
(* C8: every result analyzeImage returns with the empty string as text has *)
(* isEnglish true, for every model response and every failure.             *)
(***************************************************************************)
C8_EmptyTextIsEnglish ==
    (Done("analyzeImage") /\ ret.kind = "return" /\ ret.value.text = JSStr(<<>>))
        => ret.value.isEnglish

(***************************************************************************)
(* C9: when the model response parses as the structured object (an object  *)
(* whose text field is a string or absent), analyzeImage calls no          *)
(* classifier and returns the text field unchanged (the empty string when  *)
(* absent), with isEnglish false exactly when the isEnglish field is the   *)
(* boolean false; an absent field or any other value gives true.           *)
(***************************************************************************)
\* the object the content c parses as, when it is the structured object
IsStructured(c) ==
    LET parsed == JSONparse(c)
    IN /\ parsed.ok
       /\ parsed.val.t = "object"
       /\ GetProperty(parsed.val, Str_text).t \in {"string", "undefined"}

TextField(c) == GetProperty(JSONparse(c).val, Str_text)
VerdictField(c) == GetProperty(JSONparse(c).val, Str_isEnglish)

C9_StructuredVerbatim ==
    Done("analyzeImage")
        => \A k \in Replies("vision") :
              (log[k].out.kind = "content" /\ IsStructured(log[k].out.content))
                 => /\ Events("isEnglish") = {}
                    /\ Requests("classify") = {}
                    /\ ret.kind = "return"
                    /\ ret.value.text =
                          IF TextField(log[k].out.content).t = "string"
                          THEN TextField(log[k].out.content)
                          ELSE JSStr(<<>>)
                    /\ ret.value.isEnglish =
                          (VerdictField(log[k].out.content) # JSBool(FALSE))

\* a structured response whose isEnglish field is null came back as English
C9_Witness ==
    /\ Done("analyzeImage")
    /\ \E k \in Replies("vision") :
          /\ log[k].out.kind = "content"
          /\ log[k].out.content = Vis_VerdictNull
    /\ Events("isEnglish") = {}
    /\ ret = Return("analyzeImage",
                    ImageResult(JSStr(<<"B", "o", "n", "j", "o", "u", "r">>), TRUE))

(***************************************************************************)
(* C10: when the model response is non-empty, is not parseable as JSON and *)
(* does not contain the no-text sentinel, analyzeImage invokes isEnglish   *)
(* exactly once on the raw response content and returns that content as    *)
(* text together with the verdict isEnglish returned.                      *)
(***************************************************************************)
\* the value isEnglish returned to analyzeImage
VerdictReturned(v) ==
    \E k \in Events("return") : log[k].fn = "isEnglish" /\ log[k].value = v

\* analyzeImage called isEnglish once, on c, and returned c with its verdict
ReclassifiedAs(c) ==
    /\ Cardinality(Events("isEnglish")) = 1
    /\ \A k \in Events("isEnglish") : log[k].text = c
    /\ ret.kind = "return"
    /\ ret.value.text = JSStr(c)
    /\ VerdictReturned(ret.value.isEnglish)

Unparseable(c) ==
    /\ c # <<>>
    /\ ~JSONparse(c).ok
    /\ ~Contains(c, Str_NO_TEXT_FOUND)

C10_RawContentReclassified ==
    Done("analyzeImage")
        => \A k \in Replies("vision") :
              (log[k].out.kind = "content" /\ Unparseable(log[k].out.content))
                 => ReclassifiedAs(log[k].out.content)

(***************************************************************************)
(* C10 as amended: when the trimmed model response is non-empty, is not    *)
(* parseable as JSON and does not contain the no-text sentinel,            *)
(* analyzeImage invokes isEnglish exactly once on the trimmed response     *)
(* content and returns the trimmed content as text together with the       *)
(* verdict isEnglish returned.                                             *)
(***************************************************************************)
C10_TrimmedContentReclassified ==
    Done("analyzeImage")
        => \A k \in Replies("vision") :
              (log[k].out.kind = "content" /\ Unparseable(trim(log[k].out.content)))
                 => ReclassifiedAs(trim(log[k].out.content))

\* unparseable content with white space around it was classified as not
\* English by the remote check and came back trimmed
C10_Witness ==
    /\ Done("analyzeImage")
    /\ \E k \in Replies("vision") :
          /\ log[k].out.kind = "content"
          /\ log[k].out.content = <<" ">> \o Vis_NotJson \o <<"\n">>
    /\ Requests("classify") # {}
    /\ ret = Return("analyzeImage", ImageResult(JSStr(Vis_NotJson), FALSE))

(***************************************************************************)
(* C11: if the vision request fails (throws), analyzeImage returns         *)
(* { text: "", isEnglish: true }, makes no classifier call and does not    *)
(* throw.                                                                  *)
(***************************************************************************)
VisionRequestThrew == \E k \in Replies("vision") : log[k].out.kind = "reject"

C11_VisionFailureGivesEmpty ==
    (Done("analyzeImage") /\ VisionRequestThrew)
        => /\ ret = Return("analyzeImage", ImageResult(JSStr(<<>>), TRUE))
           /\ Events("isEnglish") = {}
           /\ Requests("classify") = {}

\* the vision request was issued and rejected, and the empty result came back
C11_Witness ==
    /\ Done("analyzeImage")
    /\ Requests("vision") # {}
    /\ VisionRequestThrew
    /\ ret.kind = "return"
    /\ ret.value = ImageResult(JSStr(<<>>), TRUE)

(***************************************************************************)
(* C12: translateText returns one and the same fixed placeholder string in *)
(* every failure case: the remote request throws, the response has no      *)
(* usable choice, or the response content is absent, empty or white space  *)
(* only.  (The placeholder is the one returned when the request throws.)   *)
(***************************************************************************)
\* the reply r of the translation request carries no translation
NoTranslation(r) == r.kind # "content" \/ trim(r.content) = <<>>

C12_OnePlaceholder ==
    (Done("translateText") /\ \E k \in Replies("translate") : NoTranslation(log[k].out))
        => ret = Return("translateText", Str_ErrorTranslating)

(***************************************************************************)
(* C13: isEnglish, analyzeImage and translateText are total: for every     *)
(* input and every behaviour of the local detector and the remote service  *)
(* each of them returns a value and never throws to its caller.            *)
(***************************************************************************)
PipelineFunctions == {"isEnglish", "analyzeImage", "translateText"}

C13_Total ==
    /\ \A k \in Events("throw") : log[k].fn \notin PipelineFunctions
    /\ ret.kind = "throw" => ret.fn \notin PipelineFunctions
    /\ (stack = <<>> /\ log # <<>> /\ log[1].ev \in PipelineFunctions)
          => /\ ret.kind = "return"
             /\ ret.fn = log[1].ev

\* translateText has returned although its request was rejected
C13_Witness ==
    /\ Done("translateText")
    /\ \E k \in Replies("translate") : log[k].out.kind = "reject"
    /\ ret.kind = "return"

(***************************************************************************)
(* Reading the log of a handled channel post.  A post has two content      *)
(* units: its text, handled first, and its photo, handled from the         *)
(* getFile call on.                                                        *)
(***************************************************************************)
Units == {"text", "photo"}

PhotoStart(l) ==
    IF \E k \in DOMAIN l : l[k].ev = "getFile"
    THEN CHOOSE k \in DOMAIN l :
            /\ l[k].ev = "getFile"
            /\ \A j \in 1..(k - 1) : l[j].ev # "getFile"
    ELSE Len(l) + 1

UnitOf(l, k) == IF k < PhotoStart(l) THEN "text" ELSE "photo"

\* the entries ev of the unit u in the log l
In(l, u, ev) == {k \in DOMAIN l : l[k].ev = ev /\ UnitOf(l, k) = u}

\* the log is that of a channel post
Handling == log # <<>> /\ log[1].ev = "channel_post"

\* the post the handler was called for
PostOf(l) == l[1].update.channel_post

\* the verdicts of the unit u: what isEnglish returned for the post's text,
\* what analyzeImage returned for its photo
Verdicts(l, u) ==
    {k \in In(l, u, "return") :
        l[k].fn = IF u = "text" THEN "isEnglish" ELSE "analyzeImage"}

\* the text of the unit u as the verdict k was given on it
UnitText(l, u, k) == IF u = "text" THEN PostOf(l).text ELSE l[k].value.text
NotEnglish(l, u, k) ==
    IF u = "text" THEN l[k].value = FALSE ELSE l[k].value.isEnglish = FALSE

\* the unit u was judged non-empty and not-English
Flagged(l, u) ==
    \E k \in Verdicts(l, u) :
        /\ UnitText(l, u, k).t = "string"
        /\ UnitText(l, u, k).s # <<>>
        /\ NotEnglish(l, u, k)

(***************************************************************************)
(* C14: for each content unit of a channel post the handler calls          *)
(* translateText, on the unit's text, and sends a reply if and only if the *)
(* unit's text is non-empty and its verdict is not-English: a unit that    *)
(* is not so judged has no translateText call and no reply at any time,    *)
(* one that is has at most one of each, and exactly one of each once the   *)
(* handler has returned.  Text and photo follow the same rule.             *)
(***************************************************************************)
C14_TranslateIffFlagged ==
    Handling =>
        \A u \in Units :
            LET calls == In(log, u, "translateText")
                sends == In(log, u, "sendMessage")
            IN IF Flagged(log, u)
               THEN /\ Cardinality(calls) <= 1
                    /\ Cardinality(sends) <= 1
                    /\ stack = <<>> => (Cardinality(calls) = 1
                                         /\ Cardinality(sends) = 1)
                    /\ \A c \in calls, k \in Verdicts(log, u) :
                          log[c].text = UnitText(log, u, k).s
               ELSE calls = {} /\ sends = {}

\* a post whose text was judged not-English and answered, and whose photo
\* was analysed and not answered
C14_Witness ==
    /\ Done("channel_post")
    /\ Flagged(log, "text")
    /\ In(log, "text", "sendMessage") # {}
    /\ Verdicts(log, "photo") # {}
    /\ ~Flagged(log, "photo")
    /\ In(log, "photo", "sendMessage") = {}

(***************************************************************************)
(* C15: every reply the handler sends has the body "Translation: " + t +   *)
(* "\n\nPlease, refrain from usage of any language except English", t      *)
(* being what translateText has just returned for the unit, and goes to    *)
(* the chat id of the post with reply_to_message_id the post's message id. *)
(***************************************************************************)
C15_ReplyTemplate ==
    Handling =>
        \A k \in Events("sendMessage") :
            /\ k > 1
            /\ log[k - 1].ev = "return"
            /\ log[k - 1].fn = "translateText"
            /\ log[k].text = Str_ReplyPrefix \o log[k - 1].value \o Str_ReplySuffix
            /\ log[k].chat_id = PostOf(log).chat.id
            /\ log[k].reply_to_message_id = PostOf(log).message_id

\* a reply with the translation 'Hello world' to post 124 of chat 457
C15_Witness ==
    /\ Done("channel_post")
    /\ \E k \in Events("sendMessage") :
          /\ log[k].text = Str_ReplyPrefix \o Tr_Hello \o Str_ReplySuffix
          /\ log[k].chat_id = 457
          /\ log[k].reply_to_message_id = 124

(***************************************************************************)
(* C16: once a content unit has been judged non-empty and not-English, a   *)
(* reply for it is eventually sent, and never more than one, also when the *)
(* translation request fails; the reply then has one of translateText's    *)
(* placeholders where the translation goes.                                *)
(***************************************************************************)
Placeholders == {Str_TranslationError, Str_ErrorTranslating}

\* the translation request of the unit u gave no translation
TranslationFailed(l, u) ==
    \E k \in In(l, u, "response") :
        /\ l[k].ask = "translate"
        /\ ~(l[k].out.kind = "content" /\ trim(l[k].out.content) # <<>>)

C16_Judged(u) == Handling /\ Flagged(log, u)
C16_Replied(u) == Handling /\ In(log, u, "sendMessage") # {}

C16_OneReplyWithPlaceholder ==
    Handling =>
        \A u \in Units :
            /\ Cardinality(In(log, u, "sendMessage")) <= 1
            /\ TranslationFailed(log, u) =>
                  \A k \in In(log, u, "sendMessage") :
                      \E p \in Placeholders :
                          log[k].text = Str_ReplyPrefix \o p \o Str_ReplySuffix

C16_ReplyEventuallySent ==
    /\ []C16_OneReplyWithPlaceholder
    /\ C16_Judged("text") ~> C16_Replied("text")
    /\ C16_Judged("photo") ~> C16_Replied("photo")

\* a text judged not-English whose translation request was rejected and
\* whose reply carries 'Error translating text.'
C16_Witness ==
    /\ Done("channel_post")
    /\ Flagged(log, "text")
    /\ \E k \in In(log, "text", "response") :
          log[k].ask = "translate" /\ log[k].out.kind = "reject"
    /\ \E k \in In(log, "text", "sendMessage") :
          log[k].text = Str_ReplyPrefix \o Str_ErrorTranslating \o Str_ReplySuffix

(***************************************************************************)
(* C17: for an update without a channel post, and for a post that has      *)
(* neither a non-empty text nor a photo, the handler calls none of         *)
(* isEnglish, analyzeImage and translateText and sends no reply.           *)
(***************************************************************************)
EmptyPost(m) ==
    \/ "message_id" \notin DOMAIN m
    \/ /\ ~(m.text.t = "string" /\ m.text.s # <<>>)
       /\ ~(m.photo.t = "array" /\ m.photo.a # <<>>)

C17_NothingForEmptyPost ==
    (Handling /\ EmptyPost(PostOf(log)))
        => \A ev \in {"isEnglish", "analyzeImage", "translateText",
                      "getFile", "sendMessage", "create"} :
              Events(ev) = {}

\* a post with the text '' and an empty photo list has been handled
C17_Witness ==
    /\ Done("channel_post")
    /\ "message_id" \in DOMAIN PostOf(log)
    /\ PostOf(log).text = JSStr(<<>>)
    /\ PostOf(log).photo = JSArr(<<>>)
    /\ ret = Return("channel_post", JSUndefined)

(***************************************************************************)
(* C18: no stage retries: for one content unit (the one call made from     *)
(* outside the pipeline, or the text or the photo of a post) there is at   *)
(* most one classification request, at most one vision request and at      *)
(* most one translation request, so a request that failed is never         *)
(* followed by another of its kind.                                        *)
(***************************************************************************)
C18_NoRetries ==
    \A u \in Units, ask \in {"classify", "vision", "translate"} :
        Cardinality({k \in Requests(ask) : UnitOf(log, k) = u}) <= 1

\* a post has been handled in which the vision request and, for the text,
\* the translation request were rejected
C18_Witness ==
    /\ Done("channel_post")
    /\ \E k \in Replies("translate") : log[k].out.kind = "reject"
    /\ \E k \in Replies("vision") : log[k].out.kind = "reject"

(***************************************************************************)
(* C19: no reply is sent for a content unit in whose handling the local    *)
(* detector threw, a classification or vision request threw, or a          *)
(* classification request came back with absent or empty content.          *)
(***************************************************************************)
Errored(l, u) ==
    \/ \E k \in In(l, u, "detect") : l[k].out.kind = "throw"
    \/ \E k \in In(l, u, "response") :
          \/ /\ l[k].ask \in {"classify", "vision"}
             /\ ~HasMessage(l[k].out)
          \/ /\ l[k].ask = "classify"
             /\ \/ l[k].out.kind = "noContent"
                \/ l[k].out.kind = "content" /\ l[k].out.content = <<>>

C19_FailSafe ==
    Handling =>
        \A u \in Units : Errored(log, u) => In(log, u, "sendMessage") = {}

(***************************************************************************)
(* C20: two posts handled at once, their steps interleaved at the awaits,  *)
(* each get the verdicts, the translateText calls and the replies they     *)
(* got when handled one after the other (the collaborators behaving the    *)
(* same), and every reply carries the chat id and the message id of the    *)
(* post of its own handler.                                                *)
(***************************************************************************)
IsOutcome(e) ==
    \/ e.ev \in {"translateText", "sendMessage"}
    \/ e.ev = "return" /\ e.fn \in {"isEnglish", "analyzeImage"}

Outcome(l) == SelectSeq(l, IsOutcome)

IsPrefix(a, b) == Len(a) <= Len(b) /\ SubSeq(b, 1, Len(a)) = a

C20_SameAsSequential ==
    phase = "concurrent" =>
        \A t \in Tasks :
            logs[t] # <<>> =>
                /\ IsPrefix(Outcome(logs[t]), Outcome(reference[t]))
                /\ stacks[t] = <<>> => Outcome(logs[t]) = Outcome(reference[t])
                /\ \A k \in DOMAIN logs[t] :
                      logs[t][k].ev = "sendMessage" =>
                          /\ logs[t][k].chat_id = PostOf(logs[t]).chat.id
                          /\ logs[t][k].reply_to_message_id
                                = PostOf(logs[t]).message_id

\* both handlers are suspended and each has already sent a reply
C20_Witness ==
    /\ phase = "concurrent"
    /\ \A t \in Tasks :
          /\ stacks[t] # <<>>
          /\ \E k \in DOMAIN logs[t] : logs[t][k].ev = "sendMessage"

(***************************************************************************)
(* C21: in every run of the handler each translateText call has a          *)
(* non-empty argument and comes after a not-English verdict on exactly     *)
(* that text (isEnglish called on it returned false, or analyzeImage       *)
(* returned it with isEnglish false); each sendMessage comes after the     *)
(* translateText call whose result it embeds; and there are never more     *)
(* replies than translateText calls.                                       *)
(***************************************************************************)
\* the entry v < c is a not-English verdict on the text s
VerdictOn(v, s) ==
    /\ log[v].ev = "return"
    /\ \/ /\ log[v].fn = "isEnglish"
          /\ log[v].value = FALSE
          /\ \E i \in 1..(v - 1) :
                /\ log[i].ev = "isEnglish"
                /\ log[i].text = s
                /\ \A j \in (i + 1)..(v - 1) : log[j].ev \notin {"isEnglish", "return"}
       \/ /\ log[v].fn = "analyzeImage"
          /\ log[v].value.isEnglish = FALSE
          /\ log[v].value.text = JSStr(s)

C21_TranslateAfterVerdict ==
    Handling =>
        /\ \A c \in Events("translateText") :
              /\ log[c].text # <<>>
              /\ \E v \in 1..(c - 1) : VerdictOn(v, log[c].text)
        /\ \A s \in Events("sendMessage") :
              \E c \in Events("translateText") :
                  /\ c < s
                  /\ \A j \in (c + 1)..(s - 1) : log[j].ev # "translateText"
                  /\ \E r \in (c + 1)..(s - 1) :
                        /\ log[r].ev = "return"
                        /\ log[r].fn = "translateText"
                        /\ log[s].text = Str_ReplyPrefix \o log[r].value
                                            \o Str_ReplySuffix
        /\ Cardinality(Events("sendMessage"))
              <= Cardinality(Events("translateText"))

\* a post whose text and whose photo were both translated and answered
C21_Witness ==
    /\ Done("channel_post")
    /\ Cardinality(Events("translateText")) = 2
    /\ Cardinality(Events("sendMessage")) = 2

(***************************************************************************)
(* C22: no operation of the pipeline (isEnglish, translateText,            *)
(* analyzeImage, the channel-post handler) changes a client handle: a step *)
(* that changes the handle of language.ts is a step of its                 *)
(* setOpenAIClient, one that changes the handle of image.ts a step of      *)
(* the other setOpenAIClient, so a handle that start-up has set stays as   *)
(* it is over any sequence of posts.                                       *)
(***************************************************************************)
C22_HandleWrittenBySetterOnly ==
    [][/\ openaiClientLanguage' # openaiClientLanguage
            => /\ setOpenAIClientLanguage
               /\ UNCHANGED <<stacks, rets, logs>>
       /\ openaiClientImage' # openaiClientImage
            => /\ setOpenAIClientImage
               /\ UNCHANGED <<stacks, rets, logs>>]_vars

\* with both handles set, a post has been handled down to a translation
\* request and the handles are what they were
C22_Witness ==
    /\ Done("channel_post")
    /\ openaiClientLanguage = "openai"
    /\ openaiClientImage = "openai"
    /\ \E k \in Events("translateText") : log[k].openaiClient = "openai"
    /\ \E k \in Events("analyzeImage") : log[k].openaiClient = "openai"

(***************************************************************************)
(* C23: every model response that is not the expected structured object    *)
(* is handled as malformed, the valid JSON among them that is not an       *)
(* object with the expected fields (null, a number, a quoted string, an    *)
(* array, an object without a text field): unless it is empty or has the   *)
(* NO_TEXT_FOUND marker, the raw content becomes the extracted text and    *)
(* isEnglish is called on it for the verdict.                              *)
(***************************************************************************)
\* the content c parses as an object with a text string
HasExpectedFields(c) ==
    LET parsed == JSONparse(c)
    IN /\ parsed.ok
       /\ parsed.val.t = "object"
       /\ GetProperty(parsed.val, Str_text).t = "string"

C23_MalformedReclassified ==
    Done("analyzeImage")
        => \A k \in Replies("vision") :
              (/\ log[k].out.kind = "content"
               /\ trim(log[k].out.content) # <<>>
               /\ ~Contains(log[k].out.content, Str_NO_TEXT_FOUND)
               /\ ~HasExpectedFields(trim(log[k].out.content)))
                 => ReclassifiedAs(trim(log[k].out.content))

(***************************************************************************)
(* C24: for every channel post the handler sends at most one reply,        *)
(* whatever text and photo the post carries.                               *)
(***************************************************************************)
C24_AtMostOneReply ==
    Handling => Cardinality(Events("sendMessage")) <= 1

(***************************************************************************)
(* C25: when the model response is unparseable and has the marker          *)
(* NO_TEXT_FOUND in it, or its content is absent or empty, analyzeImage    *)
(* returns { text: "", isEnglish: true } without calling isEnglish and     *)
(* without a further remote request.                                       *)
(***************************************************************************)
\* the reply r of the vision request has no text to offer
NoTextFound(r) ==
    \/ r.kind = "noContent"
    \/ /\ r.kind = "content"
       /\ \/ trim(r.content) = <<>>
          \/ /\ ~JSONparse(trim(r.content)).ok
             /\ Contains(r.content, Str_NO_TEXT_FOUND)

C25_NoTextGivesEmpty ==
    Done("analyzeImage")
        => \A k \in Replies("vision") :
              NoTextFound(log[k].out)
                 => /\ ret = Return("analyzeImage", ImageResult(JSStr(<<>>), TRUE))
                    /\ Events("isEnglish") = {}
                    /\ Cardinality(Events("create")) = 1

\* the response 'Sorry, NO_TEXT_FOUND here' has been answered with the
\* empty result
C25_Witness ==
    /\ Done("analyzeImage")
    /\ \E k \in Replies("vision") :
          /\ log[k].out.kind = "content"
          /\ log[k].out.content = Vis_Sentinel
    /\ ret.kind = "return"
    /\ ret.value = ImageResult(JSStr(<<>>), TRUE)

(***************************************************************************)
(* C26: for a post with a non-empty photo array the handler calls getFile  *)
(* exactly once, with the file_id of the last element, and then            *)
(* analyzeImage exactly once with the URL built from the file_path that    *)
(* came back; if the file info has no file_path, analyzeImage and          *)
(* translateText are not called for the photo, no reply is sent for it     *)
(* and the handler returns without throwing.                               *)
(***************************************************************************)
HasPhotos(m) ==
    /\ "message_id" \in DOMAIN m
    /\ m.photo.t = "array"
    /\ m.photo.a # <<>>

\* getFile was called once, for the last photo of the post
FetchedLastOnce ==
    /\ Cardinality(Events("getFile")) = 1
    /\ \A g \in Events("getFile") :
          log[g].file_id = PostOf(log).photo.a[Len(PostOf(log).photo.a)].file_id

\* analyzeImage was called once, on the locator of the file path p
AnalyzedOnce(p) ==
    /\ Cardinality(Events("analyzeImage")) = 1
    /\ \A a \in Events("analyzeImage") :
          log[a].imageUrl =
              Str_FileUrlPrefix \o TELEGRAM_BOT_TOKEN \o <<"/">> \o p

\* nothing was done for the photo and the handler returned
PhotoSkipped ==
    /\ Events("analyzeImage") = {}
    /\ In(log, "photo", "translateText") = {}
    /\ In(log, "photo", "sendMessage") = {}
    /\ ret = Return("channel_post", JSUndefined)

TextReplyRejected ==
    \E k \in In(log, "text", "sendMessage.settled") : log[k].out.kind = "reject"

C27_UnsetClientGivesDefault ==
    (/\ stack = <<>>
     /\ log # <<>>
     /\ log[1].ev \in PipelineFunctions
     /\ ~ClientWasSet)
        => /\ Events("create") = {}
           /\ ret.kind = "return"
           /\ ret.fn = log[1].ev
           /\ CASE log[1].ev = "isEnglish" -> ret.value = TRUE
                [] log[1].ev = "analyzeImage" ->
                      ret.value = ImageResult(JSStr(<<>>), TRUE)
                [] OTHER -> ret.value \in Placeholders

\* translateText was called with the handle unset and returned
\* 'Error translating text.'
C27_Witness ==
    /\ Done("translateText")
    /\ ~ClientWasSet
    /\ \E k \in Events("console.error") : log[k].error = "TypeError"
    /\ ret = Return("translateText", Str_ErrorTranslating)

\* the detector, remote, getFile and sendMessage calls of task t with their
\* arguments, in the order they were made
CallsOf(t) ==
    LET IsCall(e) == e.ev \in {"detect", "create", "getFile", "sendMessage"}
        Call(e) == IF e.ev = "detect"
                   THEN [ev |-> "detect", text |-> e.text]
                   ELSE e
        made == SelectSeq(logs[t], IsCall)
    IN [k \in DOMAIN made |-> Call(made[k])]

\* the replies task t has sent
RepliesOf(t) == SelectSeq(logs[t], LAMBDA e : e.ev = "sendMessage")

\* task t has handled its update
Handled(t) == stacks[t] = <<>> /\ logs[t] # <<>>

(***************************************************************************)
(* C28: the single-file pipeline of index.ts and the pipeline of the       *)
(* service modules, given the same update and collaborators that behave    *)
(* alike, make the same calls to the detector, the remote service, getFile *)
(* and sendMessage with the same arguments in the same order: at any time  *)
(* the calls of the one that is behind are what the other began with, and  *)
(* once both have handled the update their calls and replies are the same  *)
(* and they settled alike.                                                 *)
(***************************************************************************)
C28_LegacyEquivalent ==
    phase = "legacy"
        => /\ IsPrefix(CallsOf(1), CallsOf(2)) \/ IsPrefix(CallsOf(2), CallsOf(1))
           /\ (Handled(1) /\ Handled(2))
                 => /\ CallsOf(1) = CallsOf(2)
                    /\ RepliesOf(1) = RepliesOf(2)
                    /\ rets[1] = rets[2]

\* both pipelines have handled a post with a text and a photo and each has
\* sent a reply for the text and one for the image, whose text was
\* classified a second time after the response failed to parse
C28_Witness ==
    /\ phase = "legacy"
    /\ Handled(1)
    /\ Handled(2)
    /\ Len(RepliesOf(1)) = 2
    /\ Len(RepliesOf(2)) = 2
    /\ \A t \in Tasks :
          \E k \in DOMAIN logs[t] :
             /\ logs[t][k].ev = "isEnglish"
             /\ logs[t][k].text = Vis_NotJson
====
